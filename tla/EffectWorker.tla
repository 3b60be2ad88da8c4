---------------------------- MODULE EffectWorker ----------------------------
(***************************************************************************)
(* The durable effect queue (src/msg/workers: effects, leases, mail,       *)
(* webhook, sandbox; extensions/websub and extensions/repositories).       *)
(* Several worker processes share the jobs table.  A worker claims a job   *)
(* in one transaction, checks the authority of the job's owner in another, *)
(* acts on the outside world in none, and records what came of it in a     *)
(* third; any other worker may move in between, the lease may run out, and *)
(* the process may die.                                                    *)
(*                                                                         *)
(* The outside world is a counter per job: how often its mail was          *)
(* accepted, its request served, its refs moved.  Time is abstract: a      *)
(* lease is live until it has expired, a job is due after its backoff.     *)
(***************************************************************************)
EXTENDS Integers, FiniteSets, FiniteSetsExt

CONSTANTS
    Jobs,               \* jobs handlers may enqueue
    Workers,            \* worker processes
    Kind,               \* [Jobs -> Kinds]
    MaxAttempts,        \* attempts of a retried job (8 in the code)
    Concurrency,        \* runs the tool's declaration allows at once
    MaxQueuedWebhooks,  \* storage/capacity.py, 1024 in the code
    MaxWebhookRows      \* storage/capacity.py, 8192 in the code

\* "mail" also stands for market_mail and market_email_verify.
Kinds == {"mail", "tool", "git", "webhook", "websub"}

ASSUME JobsAssumption ==
    /\ IsFiniteSet(Jobs)
    /\ Kind \in [Jobs -> Kinds]
    /\ MaxAttempts \in Nat \ {0}
    /\ Concurrency \in Nat \ {0}
    /\ MaxQueuedWebhooks \in Nat \ {0} /\ MaxWebhookRows \in Nat \ {0}

VARIABLES
    jobs,       \* the jobs table; "none": not enqueued, "pruned": deleted
    worker,     \* what each process is doing, with which attempt of which job
    allowed,    \* whether the owner may still have the job done
    effects     \* how often the outside world acted on the job

vars == <<jobs, worker, allowed, effects>>

\* "busy" is the code's failed with the code server_busy, which is another
\* answer than a failure of the work itself.
Ends == {"done", "failed", "busy", "uncertain"}
JobRecord == [state : {"none", "pending", "running", "pruned"} \cup Ends,
              attempts : Nat, lease : {"none", "live", "expired"}, due : BOOLEAN]
Outcomes == Ends \cup {"retry", "push"}

Idle == [phase |-> "idle"]
WorkerState ==
    {Idle} \cup [phase : {"claimed", "ready"}, job : Jobs, attempt : Nat]
           \cup [phase : {"returned", "raised"}, job : Jobs, attempt : Nat, outcome : Outcomes]

TypeOK ==
    /\ jobs \in [Jobs -> JobRecord]
    /\ worker \in [Workers -> WorkerState]
    /\ allowed \in [Jobs -> BOOLEAN]
    /\ effects \in [Jobs -> Nat]

-----------------------------------------------------------------------------
(* Enqueueing: storage/session.py, and for webhooks storage/capacity.py.   *)

Webhooks(states) == {j \in Jobs : Kind[j] = "webhook" /\ jobs[j].state \in states}

Pruned_Any == Webhooks(Ends)    \* mutant: uncertain deliveries are deleted too

(* The rows require_webhook_capacity() may delete.                         *)
Prunable == Webhooks({"done", "failed", "busy"})

Pending == [state |-> "pending", attempts |-> 0, lease |-> "none", due |-> TRUE]

(* A webhook finds room in the queue and, by deleting the oldest finished  *)
(* rows, in the table.  Which row is oldest is left open.                  *)
Enqueue(j) ==
    LET rows     == Webhooks({"pending", "running"} \cup Ends)
        overflow == Cardinality(rows) - MaxWebhookRows + 1
    IN  /\ jobs[j].state = "none"
        /\ \/ /\ Kind[j] # "webhook" \/ overflow <= 0
              /\ jobs' = [jobs EXCEPT ![j] = Pending]
           \/ /\ Kind[j] = "webhook" /\ overflow > 0
              /\ \E old \in kSubset(overflow, Prunable) :
                    jobs' = [x \in Jobs |-> CASE x = j -> Pending
                                              [] x \in old -> [jobs[x] EXCEPT !.state = "pruned"]
                                              [] OTHER -> jobs[x]]
        /\ Kind[j] = "webhook" =>
              Cardinality(Webhooks({"pending", "running"})) < MaxQueuedWebhooks
        /\ UNCHANGED <<worker, allowed, effects>>

-----------------------------------------------------------------------------
(* _claim(), in one transaction of an idle worker.                         *)

Ended(job, state) == [job EXCEPT !.state = state, !.lease = "none"]

(* A retry waits for its backoff.                                          *)
Requeued(job) ==
    IF job.attempts >= MaxAttempts THEN Ended(job, "failed")
    ELSE [Ended(job, "pending") EXCEPT !.due = FALSE]

Orphans_Hints == {j \in Jobs :    \* mutant: only what may be tried again is swept
    jobs[j].state = "running" /\ jobs[j].lease = "expired" /\ Kind[j] = "websub"}

Orphans == {j \in Jobs : jobs[j].state = "running" /\ jobs[j].lease = "expired"}

Swept_Again(j) == Requeued(jobs[j])    \* mutant: whatever expired is tried again

(* Expired work may have been done: only idempotent hints are tried again. *)
Swept(j) == IF Kind[j] = "websub" THEN Requeued(jobs[j]) ELSE Ended(jobs[j], "uncertain")

Sweep(w) ==
    /\ worker[w] = Idle
    /\ \E j \in Orphans : jobs' = [jobs EXCEPT ![j] = Swept(j)]
    /\ UNCHANGED <<worker, allowed, effects>>

Claimable(j) ==
    /\ Orphans = {}
    /\ jobs[j].state = "pending" /\ jobs[j].due

Slots_OneMore ==    \* mutant: off by one
    Cardinality({x \in Jobs : Kind[x] = "tool" /\ jobs[x].state = "running"}) <= Concurrency

(* The tool's running rows, whichever process holds them.                  *)
Slots ==
    Cardinality({x \in Jobs : Kind[x] = "tool" /\ jobs[x].state = "running"}) < Concurrency

Claim(w, j) ==
    /\ worker[w] = Idle
    /\ Claimable(j)
    /\ Kind[j] = "tool" => Slots
    /\ jobs' = [jobs EXCEPT ![j].state = "running", ![j].lease = "live",
                            ![j].attempts = @ + 1]
    /\ worker' = [worker EXCEPT ![w] = [phase |-> "claimed", job |-> j,
                                        attempt |-> jobs[j].attempts + 1]]
    /\ UNCHANGED <<allowed, effects>>

(* The tool's declaration is gone or no longer valid.                      *)
RejectTool(w, j) ==
    /\ worker[w] = Idle
    /\ Claimable(j) /\ Kind[j] = "tool"
    /\ jobs' = [jobs EXCEPT ![j] = Ended(@, "failed")]
    /\ UNCHANGED <<worker, allowed, effects>>

-----------------------------------------------------------------------------
(* run_once() with a claimed job.                                          *)

(* What is recorded inside the try block, and what its handlers record.    *)
Returned(w, outcome) ==
    [phase |-> "returned", job |-> worker[w].job, attempt |-> worker[w].attempt,
     outcome |-> outcome]
Raised(w, outcome) ==
    [phase |-> "raised", job |-> worker[w].job, attempt |-> worker[w].attempt,
     outcome |-> outcome]

(* A read transaction: current_principal() and the checks of the job's     *)
(* kind, none of which is repeated before the outside world is touched.    *)
(* It may fail though all is in order.                                     *)
Authorize(w) ==
    /\ worker[w].phase = "claimed"
    /\ \/ /\ allowed[worker[w].job]
          /\ worker' = [worker EXCEPT ![w].phase = "ready"]
       \/ \E outcome \in {"failed", "busy", "uncertain"} :
             worker' = [worker EXCEPT ![w] = Raised(w, outcome)]
    /\ UNCHANGED <<jobs, allowed, effects>>

(* What the senders report, with what the outside world has then done.     *)
(* Mail is ambiguous once the message is being sent, and not before.       *)
MailResults == {<<"done", 1>>, <<"uncertain", 0>>, <<"uncertain", 1>>,
                <<"retry", 0>>, <<"failed", 0>>}

(* A tool's answer may be refused after its request was served.            *)
ToolResults == {<<"done", 1>>} \cup ({"uncertain", "failed"} \X {0, 1})

(* The bundle is imported, no ref has moved.                               *)
PushResults == {<<"push", 0>>, <<"failed", 0>>, <<"uncertain", 0>>}

(* Whatever the endpoint answers, it may have taken the delivery.          *)
HookResults == {<<"done", 1>>} \cup ({"retry", "failed", "uncertain"} \X {0, 1})

(* A hub's broken connection is tried again, only a fault is `uncertain'.  *)
HintResults == {<<"done", 1>>} \cup ({"retry", "failed", "uncertain"} \X {0, 1})

Results(kind) ==
    CASE kind = "mail"    -> MailResults
      [] kind = "tool"    -> ToolResults
      [] kind = "git"     -> PushResults
      [] kind = "webhook" -> HookResults
      [] kind = "websub"  -> HintResults

(* The outcomes that _mail(), _tool(), _webhook() and the others record    *)
(* themselves; the rest are exceptions.                                    *)
Tried(kind) ==
    CASE kind = "mail" -> {"done", "uncertain"}
      [] kind = "tool" -> {"done"}
      [] kind = "git"  -> {"push"}
      [] OTHER         -> {"done", "retry", "failed"}

Reported(w, outcome) ==
    IF outcome \in Tried(Kind[worker[w].job]) THEN Returned(w, outcome) ELSE Raised(w, outcome)

Perform(w) ==
    /\ worker[w].phase = "ready"
    /\ \E result \in Results(Kind[worker[w].job]) :
          /\ worker' = [worker EXCEPT ![w] = Reported(w, result[1])]
          /\ effects' = [effects EXCEPT ![worker[w].job] = @ + result[2]]
    /\ UNCHANGED <<jobs, allowed>>

Answer_AnyAttempt(job, attempt, new) ==    \* mutant: whose attempt is not looked at
    IF job.state # "running" THEN job
    ELSE IF job.lease = "expired" THEN Ended(job, "uncertain") ELSE new

(* current_attempt(): a late answer is dropped, and one after the lease    *)
(* leaves the job uncertain.                                               *)
Answer(job, attempt, new) ==
    IF job.state # "running" \/ job.attempts # attempt THEN job
    ELSE IF job.lease = "expired" THEN Ended(job, "uncertain") ELSE new

Live(w) ==
    LET job == jobs[worker[w].job]
    IN  job.state = "running" /\ job.attempts = worker[w].attempt /\ job.lease = "live"

(* _finish(), _retry() and the last transaction of a tool's run.           *)
Record(w) ==
    /\ worker[w].phase \in {"returned", "raised"} /\ worker[w].outcome # "push"
    /\ Kind[worker[w].job] = "tool" /\ worker[w].outcome = "done" /\ Live(w) =>
          allowed[worker[w].job]
    /\ LET job == jobs[worker[w].job]
           new == IF worker[w].outcome = "retry" THEN Requeued(job)
                  ELSE Ended(job, worker[w].outcome)
       IN  jobs' = [jobs EXCEPT ![worker[w].job] = Answer(job, worker[w].attempt, new)]
    /\ worker' = [worker EXCEPT ![w] = Idle]
    /\ UNCHANGED <<allowed, effects>>

(* The last transaction fails, for a tool's run also because its owner     *)
(* lost the right meanwhile: what was done is not undone.  One that could  *)
(* not begin raises server_busy, which only _tool() turns into an unknown  *)
(* outcome.  A handler's own transaction that fails is a crash.            *)
RecordFails(w) ==
    /\ worker[w].phase = "returned" /\ worker[w].outcome # "push"
    /\ \E outcome \in {"busy", "uncertain"} :
          /\ outcome = "busy" => Kind[worker[w].job] # "tool"
          /\ worker' = [worker EXCEPT ![w] = Raised(w, outcome)]
    /\ UNCHANGED <<jobs, allowed, effects>>

(* execute_push(): the refs move inside the transaction that records them. *)
(* Before, it may fail like any other; when it then fails to commit the    *)
(* worker reports `uncertain', and when the process dies nobody reports.   *)
Push(w) ==
    /\ worker[w].phase = "returned" /\ worker[w].outcome = "push"
    /\ LET j == worker[w].job
       IN  \/ /\ \E outcome \in {"failed", "busy", "uncertain"} :
                    worker' = [worker EXCEPT ![w] = Raised(w, outcome)]
              /\ UNCHANGED <<jobs, effects>>
           \/ /\ allowed[j] /\ ~Live(w)
              /\ jobs' = [jobs EXCEPT ![j] = Answer(@, worker[w].attempt, @)]
              /\ worker' = [worker EXCEPT ![w] = Idle]
              /\ UNCHANGED effects
           \/ /\ allowed[j] /\ Live(w)
              /\ effects' = [effects EXCEPT ![j] = @ + 1]
              /\ \/ /\ jobs' = [jobs EXCEPT ![j] = Ended(@, "done")]
                    /\ worker' = [worker EXCEPT ![w] = Idle]
                 \/ /\ worker' \in {[worker EXCEPT ![w] = Raised(w, "uncertain")],
                                    [worker EXCEPT ![w] = Idle]}
                    /\ UNCHANGED jobs
    /\ UNCHANGED allowed

-----------------------------------------------------------------------------
(* The process dies, is cancelled, or finds the runtime generation stale:  *)
(* the job stays running until its lease has expired.                      *)
Crash(w) ==
    /\ worker[w] # Idle
    /\ worker' = [worker EXCEPT ![w] = Idle]
    /\ UNCHANGED <<jobs, allowed, effects>>

LeaseExpires(j) ==
    /\ jobs[j].state = "running" /\ jobs[j].lease = "live"
    /\ jobs' = [jobs EXCEPT ![j].lease = "expired"]
    /\ UNCHANGED <<worker, allowed, effects>>

Backoff(j) ==
    /\ jobs[j].state = "pending" /\ ~jobs[j].due
    /\ jobs' = [jobs EXCEPT ![j].due = TRUE]
    /\ UNCHANGED <<worker, allowed, effects>>

(* The credential is revoked, the address changed, the endpoint disabled.  *)
Disallow(j) ==
    /\ allowed[j]
    /\ allowed' = [allowed EXCEPT ![j] = FALSE]
    /\ UNCHANGED <<jobs, worker, effects>>

-----------------------------------------------------------------------------
Init ==
    /\ jobs = [j \in Jobs |-> [Pending EXCEPT !.state = "none"]]
    /\ worker = [w \in Workers |-> Idle]
    /\ allowed = [j \in Jobs |-> TRUE]
    /\ effects = [j \in Jobs |-> 0]

RunOnce(w) ==
    \/ Sweep(w)
    \/ \E j \in Jobs : Claim(w, j) \/ RejectTool(w, j)
    \/ Authorize(w) \/ Perform(w) \/ Record(w) \/ RecordFails(w) \/ Push(w)

JobStep(j) == Enqueue(j) \/ LeaseExpires(j) \/ Backoff(j) \/ Disallow(j)

Next ==
    \/ \E w \in Workers : RunOnce(w) \/ Crash(w)
    \/ \E j \in Jobs : JobStep(j)

Spec == Init /\ [][Next]_vars

(* Every process keeps calling run_once(), senders and runners have time   *)
(* limits, and time passes.  Nothing keeps a process from dying.           *)
Fairness ==
    /\ \A w \in Workers : WF_vars(RunOnce(w))
    /\ \A j \in Jobs : WF_vars(LeaseExpires(j)) /\ WF_vars(Backoff(j))

FairSpec == Spec /\ Fairness

-----------------------------------------------------------------------------
(* Properties.                                                             *)

Once == {"mail", "tool", "git"}

(* A mail, a tool run and a push happen at most once, whatever crashes,    *)
(* lease expiries, late answers and retries come in between: nothing that  *)
(* may have happened is ever queued again.                                 *)
AtMostOnce == \A j \in Jobs : Kind[j] \in Once => effects[j] <= 1

(* The failures that say for sure that nothing happened.  A sent mail may  *)
(* be reported as server_busy, a tool's served request as refused, and an  *)
(* endpoint or hub may have taken what it answered with an error.          *)
Definite(kind) ==
    CASE kind = "mail" -> {"failed"}
      [] kind = "tool" -> {"busy"}
      [] kind = "git"  -> {"failed", "busy"}
      [] OTHER         -> {}

(* The status tells the truth: what is reported done happened, and what is *)
(* reported as a definite failure of a mail, a tool run or a push did not, *)
(* whatever fails between the outside world and the record.                *)
HonestStatus ==
    \A j \in Jobs :
        /\ jobs[j].state = "done" => effects[j] >= 1
        /\ jobs[j].state \in Definite(Kind[j]) => effects[j] = 0

NoneHappened(kind) ==
    \A j \in Jobs : Kind[j] = kind /\ jobs[j].state \in {"failed", "busy"} => effects[j] = 0

(* run_once() calls every failure it records a `known pre-execution        *)
(* rejection' (effects.py:661).  It would be one for tools, or at least    *)
(* for mail.                                                               *)
FailedIsDefinite == NoneHappened("tool") \/ NoneHappened("mail")

(* A verdict stands: no late worker, sweep or capacity check turns one     *)
(* into another, reopens it, or drops an undecided delivery.               *)
VerdictsStand ==
    [][\A j \in Jobs : jobs[j].state \in Ends =>
          \/ jobs'[j].state = jobs[j].state
          \/ /\ jobs'[j].state = "pruned" /\ Kind[j] = "webhook"
             /\ jobs[j].state # "uncertain"]_vars

(* Only the attempt that is running decides a job: `done' is recorded by a *)
(* worker that returned it for the current attempt, within its lease.      *)
OwnAttemptOnly ==
    [][\A j \in Jobs : jobs[j].state = "running" /\ jobs'[j].state = "done" =>
          \E w \in Workers :
              /\ worker[w] # Idle /\ worker'[w] = Idle
              /\ worker[w].job = j /\ worker[w].attempt = jobs[j].attempts
              /\ jobs[j].lease = "live"]_vars

(* A tool never has more running rows than its declaration allows, however *)
(* many processes claim at once.                                           *)
ToolSlots ==
    Cardinality({j \in Jobs : Kind[j] = "tool" /\ jobs[j].state = "running"}) <= Concurrency

(* What the invariants above rest on.  A worker holds the job it claimed   *)
(* until it records or dies, even when the row has gone on without it.     *)
Holder(w, j) == worker[w] # Idle /\ worker[w].job = j

(* What a worker is about to record.                                       *)
Records(w, outcomes) ==
    worker[w].phase \in {"returned", "raised"} /\ worker[w].outcome \in outcomes

(* Nothing has been asked of the outside world, or surely nothing was done *)
Untouched(w) ==
    worker[w].phase \in {"claimed", "ready"} \/ Records(w, {"retry", "push"})

Exclusive(j) ==
    /\ effects[j] <= 1
    /\ jobs[j].state \in {"none", "pending"} => effects[j] = 0
    /\ jobs[j].state \notin {"running", "uncertain"} => \A w \in Workers : ~Holder(w, j)
    /\ \A w, x \in Workers : Holder(w, j) /\ Holder(x, j) => w = x
    /\ \A w \in Workers : Holder(w, j) /\ Untouched(w) => effects[j] = 0
    /\ jobs[j].state \in Definite(Kind[j]) => effects[j] = 0
    /\ \A w \in Workers : Holder(w, j) /\ Records(w, Definite(Kind[j])) => effects[j] = 0
    /\ \A w \in Workers : Holder(w, j) /\ worker[w].phase = "returned" =>
          worker[w].outcome \in Tried(Kind[j])

DoneHappened ==
    /\ \A j \in Jobs : jobs[j].state = "done" => effects[j] >= 1
    /\ \A w \in Workers : Records(w, {"done"}) => effects[worker[w].job] >= 1

OneHolder == \A j \in Jobs : Kind[j] \in Once => Exclusive(j)

(* One worker at a time is answerable for a job that may happen only once, *)
(* and what it has not yet asked for has not happened: the inductive       *)
(* strengthening of AtMostOnce and HonestStatus.                           *)
QueueSound == DoneHappened /\ OneHolder

(* Every job that is queued ends: nothing is forgotten with a dead worker, *)
(* and nothing is tried for ever.                                          *)
EveryJobEnds ==
    \A j \in Jobs :
        (jobs[j].state \in {"pending", "running"}) ~> (jobs[j].state \in Ends \cup {"pruned"})

(* What must not happen twice does not, the recorded status tells what     *)
(* happened, and one worker at a time answers for a job that may happen    *)
(* once.                                                                   *)
EffectsSound == TypeOK /\ AtMostOnce /\ HonestStatus /\ QueueSound
=============================================================================
