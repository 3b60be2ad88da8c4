------------------------- MODULE EffectWorkerProofs -------------------------
(***************************************************************************)
(* Proofs about EffectWorker, for any jobs, worker processes and limits.   *)
(* TypeOK /\ QueueSound is inductive; AtMostOnce and HonestStatus follow.  *)
(***************************************************************************)
EXTENDS EffectWorker, FiniteSetTheorems, TLAPS

USE JobsAssumption DEF JobsAssumption, Idle, Ends, Kinds

-----------------------------------------------------------------------------
(* Rows and workers.                                                       *)

(* What becomes of a row is a row again, in the state that is meant.       *)
LEMMA EndedTyped ==
    ASSUME NEW job \in JobRecord, NEW state \in Ends
    PROVE  /\ Ended(job, state) \in JobRecord
           /\ Ended(job, state).state = state
           /\ Ended(job, state).lease = "none"
           /\ Ended(job, state).attempts = job.attempts
  BY DEF Ended, JobRecord

(* So is a row queued again, unless its attempts are used up.             *)
LEMMA RequeuedTyped ==
    ASSUME NEW job \in JobRecord
    PROVE  /\ Requeued(job) \in JobRecord
           /\ Requeued(job).state \in {"pending", "failed"}
  BY DEF Requeued, Ended, JobRecord

(* A worker that is not idle has a job.                                    *)
LEMMA WorkerTyped ==
    ASSUME NEW w \in Workers, worker \in [Workers -> WorkerState], worker[w] # Idle
    PROVE  /\ worker[w].job \in Jobs /\ worker[w].attempt \in Nat
           /\ worker[w].phase \in {"claimed", "ready", "returned", "raised"}
           /\ worker[w].phase \in {"returned", "raised"} => worker[w].outcome \in Outcomes
           /\ worker[w].phase = "claimed" =>
                 [worker[w] EXCEPT !.phase = "ready"]
                    = [phase |-> "ready", job |-> worker[w].job, attempt |-> worker[w].attempt]
  BY DEF WorkerState

(* A phase other than "idle" is not idleness.                              *)
LEMMA Busy ==
    ASSUME NEW w \in Workers, worker[w].phase \in {"claimed", "ready", "returned", "raised"}
    PROVE  worker[w] # Idle
  OBVIOUS

(* What a worker returns or raises is about the job it had.                *)
LEMMA ReportTyped ==
    ASSUME NEW w \in Workers, worker \in [Workers -> WorkerState], worker[w] # Idle,
           NEW outcome \in Outcomes,
           NEW new \in {Returned(w, outcome), Raised(w, outcome), Reported(w, outcome)}
    PROVE  /\ new \in WorkerState
           /\ new.phase \in {"returned", "raised"}
           /\ new.job = worker[w].job
           /\ new.outcome = outcome
           /\ new # Idle
           /\ new.phase = "returned" =>
                 new = Returned(w, outcome) \/ outcome \in Tried(Kind[worker[w].job])
  <1>1. new \in {Returned(w, outcome), Raised(w, outcome)}
    BY DEF Reported
  <1>2. CASE new = Returned(w, outcome)
    BY <1>2, WorkerTyped DEF WorkerState, Returned
  <1>3. CASE new = Raised(w, outcome)
    BY <1>3, WorkerTyped DEF WorkerState, Raised
  <1> QED  BY <1>1, <1>2, <1>3

(* A definite failure is a failure, and none of the others.                *)
LEMMA DefiniteFails ==
    ASSUME NEW kind
    PROVE  Definite(kind) \subseteq {"failed", "busy"}
  BY DEF Definite

(* Whatever a sender reports is an outcome and zero or one effect; what it *)
(* reports as done happened, what it wants retried or refuses did not, for *)
(* the kinds that happen at most once.                                     *)
LEMMA ResultsHonest ==
    ASSUME NEW kind \in Kinds, NEW result \in Results(kind)
    PROVE  /\ result[1] \in Outcomes /\ result[2] \in {0, 1}
           /\ result[1] = "done" => result[2] = 1
           /\ kind \in Once /\ result[1] \in {"retry", "push"} => result[2] = 0
           /\ result[1] \in Definite(kind) => result[2] = 0
  BY DEF Definite, Results, MailResults, ToolResults, PushResults, HookResults, HintResults,
         Outcomes, Once

(* An answer leaves the row alone, ends it as uncertain or takes effect.   *)
LEMMA AnswerCases ==
    ASSUME NEW job, NEW attempt, NEW new
    PROVE  \/ Answer(job, attempt, new) = job
           \/ Answer(job, attempt, new) = Ended(job, "uncertain") /\ job.state = "running"
           \/ Answer(job, attempt, new) = new /\ job.state = "running"
  BY DEF Answer

-----------------------------------------------------------------------------
(* Types.                                                                  *)

(* No job is queued at first, and nobody works.                            *)
LEMMA InitTyped == Init => TypeOK
  <1>1. [Pending EXCEPT !.state = "none"] \in JobRecord
    BY DEF Pending, JobRecord
  <1>2. Idle \in WorkerState
    BY DEF WorkerState
  <1> QED  BY <1>1, <1>2 DEF Init, TypeOK

(* Every action keeps the shape.                                           *)
LEMMA StepTyped ==
    ASSUME TypeOK, [Next]_vars
    PROVE  TypeOK'
  <1> USE DEF TypeOK
  <1>1. ASSUME NEW j \in Jobs, Enqueue(j) PROVE TypeOK'
    <2>1. Pending \in JobRecord
      BY DEF Pending, JobRecord
    <2>2. \A x \in Jobs : [jobs[x] EXCEPT !.state = "pruned"] \in JobRecord
      BY DEF JobRecord
    <2> QED  BY <1>1, <2>1, <2>2 DEF Enqueue
  <1>2. ASSUME NEW w \in Workers, Sweep(w) PROVE TypeOK'
    <2>1. \A j \in Jobs : Swept(j) \in JobRecord
      BY EndedTyped, RequeuedTyped DEF Swept
    <2> QED  BY <1>2, <2>1 DEF Sweep, Orphans
  <1>3. ASSUME NEW w \in Workers, NEW j \in Jobs, Claim(w, j) PROVE TypeOK'
    <2>1. jobs[j].attempts + 1 \in Nat
      BY DEF JobRecord
    <2>2. [phase |-> "claimed", job |-> j, attempt |-> jobs[j].attempts + 1] \in WorkerState
      BY <2>1 DEF WorkerState
    <2>3. jobs' \in [Jobs -> JobRecord]
      BY <1>3, <2>1 DEF Claim, JobRecord
    <2> QED  BY <1>3, <2>2, <2>3 DEF Claim
  <1>4. ASSUME NEW w \in Workers, NEW j \in Jobs, RejectTool(w, j) PROVE TypeOK'
    BY <1>4, EndedTyped DEF RejectTool
  <1>5. ASSUME NEW w \in Workers, Authorize(w) PROVE TypeOK'
    <2>1. worker[w] # Idle
      BY <1>5, Busy DEF Authorize
    <2>2. \A outcome \in {"failed", "busy", "uncertain"} : Raised(w, outcome) \in WorkerState
      BY <2>1, ReportTyped DEF Outcomes
    <2>3. [worker[w] EXCEPT !.phase = "ready"] \in WorkerState
      BY <1>5, <2>1, WorkerTyped DEF Authorize, WorkerState
    <2> QED  BY <1>5, <2>2, <2>3 DEF Authorize
  <1>6. ASSUME NEW w \in Workers, Perform(w) PROVE TypeOK'
    <2>1. worker[w] # Idle /\ worker[w].job \in Jobs /\ Kind[worker[w].job] \in Kinds
      BY <1>6, Busy, WorkerTyped DEF Perform
    <2>2. PICK result \in Results(Kind[worker[w].job]) :
              /\ worker' = [worker EXCEPT ![w] = Reported(w, result[1])]
              /\ effects' = [effects EXCEPT ![worker[w].job] = @ + result[2]]
      BY <1>6 DEF Perform
    <2>3. Reported(w, result[1]) \in WorkerState /\ result[2] \in {0, 1}
      BY <2>1, ResultsHonest, ReportTyped
    <2> QED  BY <1>6, <2>1, <2>2, <2>3 DEF Perform
  <1>7. ASSUME NEW w \in Workers, Record(w) PROVE TypeOK'
    <2>1. worker[w] # Idle /\ worker[w].job \in Jobs
          /\ worker[w].outcome \in Ends \cup {"retry"}
      BY <1>7, Busy, WorkerTyped DEF Record, Outcomes
    <2> DEFINE job == jobs[worker[w].job]
               new == IF worker[w].outcome = "retry" THEN Requeued(job)
                      ELSE Ended(job, worker[w].outcome)
    <2>2. new \in JobRecord /\ Ended(job, "uncertain") \in JobRecord /\ job \in JobRecord
      BY <2>1, EndedTyped, RequeuedTyped
    <2>3. Answer(job, worker[w].attempt, new) \in JobRecord
      BY <2>2, AnswerCases
    <2>4. Idle \in WorkerState
      BY DEF WorkerState
    <2>5. jobs' = [jobs EXCEPT ![worker[w].job] = Answer(job, worker[w].attempt, new)]
      BY <1>7 DEF Record
    <2>6. jobs' \in [Jobs -> JobRecord]
      BY <2>3, <2>5
    <2>7. worker' = [worker EXCEPT ![w] = Idle] /\ UNCHANGED <<allowed, effects>>
      BY <1>7 DEF Record
    <2> QED  BY <2>4, <2>6, <2>7
  <1>8. ASSUME NEW w \in Workers, RecordFails(w) PROVE TypeOK'
    <2>1. \A outcome \in {"busy", "uncertain"} : Raised(w, outcome) \in WorkerState
      BY <1>8, Busy, ReportTyped DEF RecordFails, Outcomes
    <2> QED  BY <1>8, <2>1 DEF RecordFails
  <1>9. ASSUME NEW w \in Workers, Push(w) PROVE TypeOK'
    <2>1. worker[w] # Idle /\ worker[w].job \in Jobs
      BY <1>9, Busy, WorkerTyped DEF Push
    <2> DEFINE j == worker[w].job
    <2>2. /\ \A outcome \in {"failed", "busy", "uncertain"} : Raised(w, outcome) \in WorkerState
          /\ Idle \in WorkerState
      BY <2>1, ReportTyped DEF Outcomes, WorkerState
    <2>3. /\ Ended(jobs[j], "done") \in JobRecord
          /\ Answer(jobs[j], worker[w].attempt, jobs[j]) \in JobRecord
      BY <2>1, EndedTyped, AnswerCases
    <2> QED  BY <1>9, <2>1, <2>2, <2>3 DEF Push
  <1>10. ASSUME NEW w \in Workers, Crash(w) PROVE TypeOK'
    BY <1>10 DEF Crash, WorkerState
  <1>11. ASSUME NEW j \in Jobs, LeaseExpires(j) PROVE TypeOK'
    BY <1>11 DEF LeaseExpires, JobRecord
  <1>12. ASSUME NEW j \in Jobs, Backoff(j) PROVE TypeOK'
    BY <1>12 DEF Backoff, JobRecord
  <1>13. ASSUME NEW j \in Jobs, Disallow(j) PROVE TypeOK'
    BY <1>13 DEF Disallow
  <1>14. CASE UNCHANGED vars
    BY <1>14 DEF vars
  <1> QED
    BY <1>1, <1>2, <1>3, <1>4, <1>5, <1>6, <1>7, <1>8, <1>9, <1>10, <1>11, <1>12,
       <1>13, <1>14 DEF Next, RunOnce, JobStep

(* Whatever the processes do, the table, the workers and the counters keep *)
(* their shape: every outcome a sender reports has a state of its own.     *)
THEOREM QueueTyped == Spec => []TypeOK
  <1> QED  BY InitTyped, StepTyped, PTL DEF Spec

-----------------------------------------------------------------------------
(* What is done, happened.                                                 *)

(* A job is done only by a worker that returned with that.                 *)
LEMMA StepDone ==
    ASSUME TypeOK, DoneHappened, [Next]_vars
    PROVE  DoneHappened'
  <1> USE DEF TypeOK, DoneHappened
  <1>1. ASSUME NEW j \in Jobs, Enqueue(j) PROVE DoneHappened'
    <2>1. \A x \in Jobs : [jobs[x] EXCEPT !.state = "pruned"].state = "pruned"
      BY DEF JobRecord
    <2>2. Pending.state = "pending"
      BY DEF Pending
    <2>3. \A x \in Jobs : jobs'[x].state = "done" => jobs[x].state = "done"
      BY <1>1, <2>1, <2>2 DEF Enqueue
    <2> QED  BY <1>1, <2>3 DEF Enqueue, Records
  <1>2. ASSUME NEW w \in Workers, Sweep(w) PROVE DoneHappened'
    <2>1. \A j \in Jobs : Swept(j).state # "done"
      BY EndedTyped, RequeuedTyped DEF Swept
    <2>2. \A x \in Jobs : jobs'[x].state = "done" => jobs[x].state = "done"
      BY <1>2, <2>1 DEF Sweep, Orphans
    <2> QED  BY <1>2, <2>2 DEF Sweep, Records
  <1>3. ASSUME NEW w \in Workers, NEW j \in Jobs, Claim(w, j) PROVE DoneHappened'
    <2>1. \A x \in Jobs : jobs'[x].state = "done" => jobs[x].state = "done"
      BY <1>3 DEF Claim, JobRecord
    <2> QED  BY <1>3, <2>1 DEF Claim, Records
  <1>4. ASSUME NEW w \in Workers, NEW j \in Jobs, RejectTool(w, j) PROVE DoneHappened'
    BY <1>4, EndedTyped DEF RejectTool, Records
  <1>5. ASSUME NEW w \in Workers, Authorize(w) PROVE DoneHappened'
    <2>1. worker[w] # Idle
      BY <1>5, Busy DEF Authorize
    <2>2. /\ \A outcome \in {"failed", "busy", "uncertain"} : Raised(w, outcome).outcome = outcome
          /\ [worker[w] EXCEPT !.phase = "ready"].phase = "ready"
      BY <1>5, <2>1, WorkerTyped DEF Raised, Authorize
    <2> QED  BY <1>5, <2>2 DEF Authorize, Records
  <1>6. ASSUME NEW w \in Workers, Perform(w) PROVE DoneHappened'
    <2>1. worker[w] # Idle /\ worker[w].job \in Jobs /\ Kind[worker[w].job] \in Kinds
      BY <1>6, Busy, WorkerTyped DEF Perform
    <2>2. PICK result \in Results(Kind[worker[w].job]) :
              /\ worker' = [worker EXCEPT ![w] = Reported(w, result[1])]
              /\ effects' = [effects EXCEPT ![worker[w].job] = @ + result[2]]
      BY <1>6 DEF Perform
    <2>3. /\ result[1] = "done" => result[2] = 1
          /\ result[2] \in {0, 1}
          /\ Reported(w, result[1]).job = worker[w].job
          /\ Reported(w, result[1]).outcome = result[1]
      BY <2>1, ResultsHonest, ReportTyped
    <2>4. \A x \in Jobs : effects'[x] >= effects[x]
      BY <2>1, <2>2, <2>3
    <2>5. result[1] = "done" => effects'[worker[w].job] >= 1
      BY <2>1, <2>2, <2>3
    <2>6. \A x \in Workers \ {w} : worker'[x] = worker[x]
      BY <2>2
    <2>7. \A x \in Workers : Records(x, {"done"}) => worker[x].job \in Jobs
      BY Busy, WorkerTyped DEF Records
    <2>8. worker'[w] = Reported(w, result[1])
      BY <2>2
    <2>9. jobs' = jobs
      BY <1>6 DEF Perform
    <2>10. ASSUME NEW x \in Workers, Records(x, {"done"})'
           PROVE  effects'[worker'[x].job] >= 1
      <3>1. CASE x = w
        BY <2>3, <2>5, <2>8, <2>10, <3>1 DEF Records
      <3>2. CASE x # w
        <4>1. worker'[x] = worker[x] /\ worker[x].job \in Jobs
          BY <2>6, <2>7, <2>10, <3>2 DEF Records
        <4> QED  BY <2>1, <2>2, <2>3, <2>4, <2>10, <4>1 DEF Records
      <3> QED  BY <3>1, <3>2
    <2>11. ASSUME NEW x \in Jobs, jobs'[x].state = "done" PROVE effects'[x] >= 1
      <3>1. effects[x] >= 1 /\ effects[x] \in Nat
        BY <2>9, <2>11
      <3> QED  BY <2>1, <2>2, <2>3, <3>1
    <2> QED  BY <2>10, <2>11
  <1>7. ASSUME NEW w \in Workers, Record(w) PROVE DoneHappened'
    <2>1. worker[w] # Idle /\ worker[w].job \in Jobs
          /\ worker[w].outcome \in Ends \cup {"retry"}
      BY <1>7, Busy, WorkerTyped DEF Record, Outcomes
    <2> DEFINE job == jobs[worker[w].job]
               new == IF worker[w].outcome = "retry" THEN Requeued(job)
                      ELSE Ended(job, worker[w].outcome)
    <2>2. /\ new.state = "done" => worker[w].outcome = "done"
          /\ Ended(job, "uncertain").state = "uncertain"
      BY <2>1, EndedTyped, RequeuedTyped
    <2>3. Answer(job, worker[w].attempt, new).state = "done" =>
              job.state = "done" \/ worker[w].outcome = "done"
      BY <2>2, AnswerCases
    <2>4. /\ jobs' = [jobs EXCEPT ![worker[w].job] = Answer(job, worker[w].attempt, new)]
          /\ worker[w].phase \in {"returned", "raised"} /\ effects' = effects
          /\ worker' = [worker EXCEPT ![w] = Idle]
      BY <1>7 DEF Record
    <2>5. ASSUME NEW j \in Jobs, jobs'[j].state = "done" PROVE effects'[j] >= 1
      <3>1. CASE j = worker[w].job
        BY <2>1, <2>3, <2>4, <2>5, <3>1 DEF Records
      <3>2. CASE j # worker[w].job
        BY <2>1, <2>4, <2>5, <3>2
      <3> QED  BY <3>1, <3>2
    <2> QED  BY <2>4, <2>5 DEF Records
  <1>8. ASSUME NEW w \in Workers, RecordFails(w) PROVE DoneHappened'
    BY <1>8 DEF RecordFails, Raised, Records
  <1>9. ASSUME NEW w \in Workers, Push(w) PROVE DoneHappened'
    <2>1. worker[w] # Idle /\ worker[w].job \in Jobs
      BY <1>9, Busy, WorkerTyped DEF Push
    <2> DEFINE j == worker[w].job
    <2>2. Answer(jobs[j], worker[w].attempt, jobs[j]).state = "done" => jobs[j].state = "done"
      BY <2>1, EndedTyped, AnswerCases
    <2>3. \A x \in Workers : Records(x, {"done"}) => worker[x].job \in Jobs
      BY Busy, WorkerTyped DEF Records
    <2>4. \A o \in {"failed", "busy", "uncertain"} : Raised(w, o).outcome = o
      BY DEF Raised
    <2>5. \A x \in Jobs : effects'[x] >= effects[x]
      BY <1>9, <2>1 DEF Push
    <2>6. \A x \in Workers : \/ worker'[x] = worker[x] \/ worker'[x] = Idle
                             \/ worker'[x].outcome \in {"failed", "busy", "uncertain"}
      BY <1>9, <2>4 DEF Push
    <2>7. \A x \in Jobs : jobs'[x].state = "done" =>
              jobs[x].state = "done" \/ (x = j /\ effects'[j] = effects[j] + 1)
      BY <1>9, <2>1, <2>2 DEF Push
    <2>8. effects' \in [Jobs -> Nat]
      BY <1>9, <2>1 DEF Push
    <2>9. ASSUME NEW x \in Workers, Records(x, {"done"})'
          PROVE  effects'[worker'[x].job] >= 1
      <3>1. worker'[x] = worker[x] /\ worker[x].job \in Jobs
        BY <2>3, <2>6, <2>9 DEF Records
      <3>2. effects[worker[x].job] >= 1
        BY <2>9, <3>1 DEF Records
      <3> QED  BY <2>5, <2>8, <3>1, <3>2
    <2>10. ASSUME NEW x \in Jobs, jobs'[x].state = "done" PROVE effects'[x] >= 1
      BY <2>1, <2>5, <2>7, <2>8, <2>10
    <2> QED  BY <2>9, <2>10
  <1>10. ASSUME NEW w \in Workers, Crash(w) PROVE DoneHappened'
    BY <1>10 DEF Crash, Records
  <1>11. ASSUME NEW j \in Jobs, LeaseExpires(j) PROVE DoneHappened'
    BY <1>11 DEF LeaseExpires, JobRecord, Records
  <1>12. ASSUME NEW j \in Jobs, Backoff(j) PROVE DoneHappened'
    BY <1>12 DEF Backoff, JobRecord, Records
  <1>13. ASSUME NEW j \in Jobs, Disallow(j) PROVE DoneHappened'
    BY <1>13 DEF Disallow, Records
  <1>14. CASE UNCHANGED vars
    BY <1>14 DEF vars, Records
  <1> QED
    BY <1>1, <1>2, <1>3, <1>4, <1>5, <1>6, <1>7, <1>8, <1>9, <1>10, <1>11, <1>12,
       <1>13, <1>14 DEF Next, RunOnce, JobStep

-----------------------------------------------------------------------------
(* One worker at a time is answerable for a job that may happen once.      *)

(* A step that leaves the job's row in its state and its counter alone,    *)
(* and whose holders are holders that did not move, changes nothing.       *)
LEMMA Bystander ==
    ASSUME NEW j \in Jobs, Exclusive(j),
           jobs'[j].state = jobs[j].state, effects'[j] = effects[j],
           \A w \in Workers : Holder(w, j)' => worker'[w] = worker[w]
    PROVE  Exclusive(j)'
  BY DEF Exclusive, Holder, Untouched, Records

(* The job's only holder lets go of it: what is left to show is what the   *)
(* row and the counter then say.                                           *)
LEMMA LetGo ==
    ASSUME NEW j \in Jobs, Exclusive(j), NEW w \in Workers, Holder(w, j),
           worker' = [worker EXCEPT ![w] = Idle], worker \in [Workers -> WorkerState],
           effects'[j] <= 1,
           jobs'[j].state \in {"none", "pending"} => effects'[j] = 0,
           jobs'[j].state \in Definite(Kind[j]) => effects'[j] = 0
    PROVE  Exclusive(j)'
  <1>1. \A x \in Workers : ~Holder(x, j)'
    BY DEF Exclusive, Holder
  <1> QED  BY <1>1 DEF Exclusive

(* The job's only holder moves on, to a worker state that still holds it.  *)
LEMMA MovesOn ==
    ASSUME NEW j \in Jobs, Exclusive(j), NEW w \in Workers, Holder(w, j), Holder(w, j)',
           \A x \in Workers \ {w} : worker'[x] = worker[x],
           jobs'[j].state = jobs[j].state, effects'[j] <= 1,
           Untouched(w)' => effects'[j] = 0,
           Records(w, Definite(Kind[j]))' => effects'[j] = 0,
           worker'[w].phase = "returned" => worker'[w].outcome \in Tried(Kind[j])
    PROVE  Exclusive(j)'
  <1>1. \A x \in Workers : Holder(x, j)' => x = w
    BY DEF Exclusive, Holder
  <1>2. jobs'[j].state \in {"running", "uncertain"}
    BY DEF Exclusive
  <1>3. jobs'[j].state \notin Definite(Kind[j])
    BY <1>2, DefiniteFails
  <1> QED  BY <1>1, <1>2, <1>3 DEF Exclusive

(* A holder's row is running, or was given up as uncertain.                *)
LEMMA HeldRow ==
    ASSUME NEW j \in Jobs, Exclusive(j), NEW w \in Workers, Holder(w, j)
    PROVE  jobs[j].state \in {"running", "uncertain"}
  BY DEF Exclusive

(* No job has happened, or is held, before it was queued.                  *)
LEMMA InitSound == Init => QueueSound
  BY DefiniteFails
  DEF Init, QueueSound, DoneHappened, OneHolder, Exclusive, Holder, Pending, Records

(* One action at a time: a job it does not concern is a bystander.         *)
LEMMA StepExclusive ==
    ASSUME TypeOK, NEW j \in Jobs, Kind[j] \in Once, Exclusive(j), [Next]_vars
    PROVE  Exclusive(j)'
  <1> USE DEF TypeOK
  <1>1. ASSUME NEW i \in Jobs, Enqueue(i) PROVE Exclusive(j)'
    <2>1. worker' = worker /\ effects' = effects
      BY <1>1 DEF Enqueue
    <2>2. CASE i = j
      <3>1. jobs[j].state = "none" /\ jobs'[j].state = "pending"
        BY <1>1, <2>2 DEF Enqueue, Pending, Once
      <3> QED  BY <2>1, <3>1, DefiniteFails DEF Exclusive, Holder
    <2>3. CASE i # j
      <3>1. jobs'[j] = jobs[j]
        BY <1>1, <2>3 DEF Enqueue, kSubset, Prunable, Webhooks, Once
      <3> QED  BY <2>1, <3>1, Bystander
    <2> QED  BY <2>2, <2>3
  <1>2. ASSUME NEW w \in Workers, Sweep(w) PROVE Exclusive(j)'
    <2>1. PICK i \in Orphans : jobs' = [jobs EXCEPT ![i] = Swept(i)]
      BY <1>2 DEF Sweep
    <2>2. worker' = worker /\ effects' = effects
      BY <1>2 DEF Sweep
    <2>3. CASE i = j
      <3>1. jobs[j].state = "running" /\ jobs'[j].state = "uncertain"
        BY <2>1, <2>3, EndedTyped DEF Orphans, Swept, Once
      <3> QED  BY <2>2, <3>1, DefiniteFails DEF Exclusive, Holder, Untouched, Records
    <2>4. CASE i # j
      BY <2>1, <2>2, <2>4, Bystander
    <2> QED  BY <2>3, <2>4
  <1>3. ASSUME NEW w \in Workers, NEW i \in Jobs, Claim(w, i) PROVE Exclusive(j)'
    <2>1. /\ worker[w] = Idle /\ effects' = effects
          /\ worker' = [worker EXCEPT ![w] = [phase |-> "claimed", job |-> i,
                                              attempt |-> jobs[i].attempts + 1]]
          /\ \A x \in Jobs \ {i} : jobs'[x] = jobs[x]
      BY <1>3 DEF Claim
    <2>2. CASE i = j
      <3>1. jobs[j].state = "pending" /\ jobs'[j].state = "running"
        BY <1>3, <2>2 DEF Claim, Claimable, JobRecord
      <3>2. effects'[j] = 0 /\ \A x \in Workers : Holder(x, j)' => x = w
        BY <2>1, <3>1 DEF Exclusive, Holder
      <3>3. worker'[w].phase = "claimed"
        BY <2>1
      <3> QED  BY <3>1, <3>2, <3>3 DEF Exclusive, Records
    <2>3. CASE i # j
      BY <2>1, <2>3, Bystander DEF Holder
    <2> QED  BY <2>2, <2>3
  <1>4. ASSUME NEW w \in Workers, NEW i \in Jobs, RejectTool(w, i) PROVE Exclusive(j)'
    <2>1. worker' = worker /\ effects' = effects /\ jobs' = [jobs EXCEPT ![i] = Ended(@, "failed")]
      BY <1>4 DEF RejectTool
    <2>2. CASE i = j
      <3>1. jobs[j].state = "pending" /\ jobs'[j].state = "failed"
        BY <1>4, <2>1, <2>2, EndedTyped DEF RejectTool, Claimable
      <3> QED  BY <2>1, <3>1 DEF Exclusive, Holder
    <2>3. CASE i # j
      BY <2>1, <2>3, Bystander
    <2> QED  BY <2>2, <2>3
  <1>5. ASSUME NEW w \in Workers, Authorize(w) PROVE Exclusive(j)'
    <2>1. /\ worker[w] # Idle /\ worker[w].phase = "claimed" /\ jobs' = jobs /\ effects' = effects
      BY <1>5, Busy DEF Authorize
    <2>2. PICK next \in {[worker[w] EXCEPT !.phase = "ready"]}
                           \cup {Raised(w, o) : o \in {"failed", "busy", "uncertain"}} :
              worker' = [worker EXCEPT ![w] = next]
      BY <1>5 DEF Authorize
    <2>3. next # Idle /\ next.job = worker[w].job /\ next.phase \in {"ready", "raised"}
          /\ (next.phase = "raised" => next.outcome \notin {"retry", "push"})
      <3>1. CASE next = [worker[w] EXCEPT !.phase = "ready"]
        BY <2>1, <3>1, WorkerTyped
      <3>2. CASE next \in {Raised(w, o) : o \in {"failed", "busy", "uncertain"}}
        BY <3>2 DEF Raised
      <3> QED  BY <3>1, <3>2
    <2>4. CASE worker[w].job = j
      <3>1. Holder(w, j) /\ effects[j] = 0
        BY <2>1, <2>4 DEF Holder, Exclusive, Untouched
      <3>2. /\ worker'[w] = next
            /\ \A x \in Workers \ {w} : worker'[x] = worker[x]
        BY <2>2
      <3>3. Holder(w, j)' /\ worker'[w].phase # "returned"
        BY <2>3, <2>4, <3>2 DEF Holder
      <3> QED  BY <2>1, <3>1, <3>2, <3>3, MovesOn
    <2>5. CASE worker[w].job # j
      BY <2>1, <2>2, <2>3, <2>5, Bystander DEF Holder
    <2> QED  BY <2>4, <2>5
  <1>6. ASSUME NEW w \in Workers, Perform(w) PROVE Exclusive(j)'
    <2>1. /\ worker[w] # Idle /\ worker[w].phase = "ready" /\ worker[w].job \in Jobs
          /\ Kind[worker[w].job] \in Kinds /\ jobs' = jobs
      BY <1>6, Busy, WorkerTyped DEF Perform
    <2>2. PICK result \in Results(Kind[worker[w].job]) :
              /\ worker' = [worker EXCEPT ![w] = Reported(w, result[1])]
              /\ effects' = [effects EXCEPT ![worker[w].job] = @ + result[2]]
      BY <1>6 DEF Perform
    <2>3. /\ Reported(w, result[1]) # Idle /\ Reported(w, result[1]).job = worker[w].job
          /\ Reported(w, result[1]).phase \in {"returned", "raised"}
          /\ Reported(w, result[1]).outcome = result[1]
          /\ result[2] \in {0, 1}
      BY <2>1, ResultsHonest, ReportTyped
    <2>4. CASE worker[w].job = j
      <3>1. Holder(w, j) /\ effects[j] = 0
        BY <2>1, <2>4 DEF Holder, Exclusive, Untouched
      <3>2. /\ worker'[w] = Reported(w, result[1])
            /\ \A x \in Workers \ {w} : worker'[x] = worker[x]
        BY <2>2
      <3>3. effects'[j] = result[2]
        BY <2>2, <2>3, <2>4, <3>1
      <3>4. /\ result[1] \in {"retry", "push"} => result[2] = 0
            /\ result[1] \in Definite(Kind[j]) => result[2] = 0
        BY <2>1, <2>4, ResultsHonest
      <3>5. Holder(w, j)'
        BY <2>3, <2>4, <3>2 DEF Holder
      <3>6. Untouched(w)' => effects'[j] = 0
        BY <2>3, <3>2, <3>3, <3>4 DEF Untouched, Records
      <3>7. Records(w, Definite(Kind[j]))' => effects'[j] = 0
        BY <2>3, <3>2, <3>3, <3>4 DEF Records
      <3>8. worker'[w].phase = "returned" => worker'[w].outcome \in Tried(Kind[j])
        BY <2>3, <2>4, <3>2 DEF Reported, Raised
      <3> QED  BY <2>1, <2>3, <3>1, <3>2, <3>3, <3>5, <3>6, <3>7, <3>8, MovesOn
    <2>5. CASE worker[w].job # j
      BY <2>1, <2>2, <2>3, <2>5, Bystander DEF Holder
    <2> QED  BY <2>4, <2>5
  <1>7. ASSUME NEW w \in Workers, Record(w) PROVE Exclusive(j)'
    <2>1. /\ worker[w] # Idle /\ worker[w].phase \in {"returned", "raised"}
          /\ worker[w].job \in Jobs
          /\ worker[w].outcome \in Ends \cup {"retry"} /\ effects' = effects
          /\ worker' = [worker EXCEPT ![w] = Idle]
      BY <1>7, Busy, WorkerTyped DEF Record, Outcomes
    <2> DEFINE job == jobs[worker[w].job]
               new == IF worker[w].outcome = "retry" THEN Requeued(job)
                      ELSE Ended(job, worker[w].outcome)
    <2>2. jobs' = [jobs EXCEPT ![worker[w].job] = Answer(job, worker[w].attempt, new)]
      BY <1>7 DEF Record
    <2>3. CASE worker[w].job = j
      <3>1. Holder(w, j)
        BY <2>1, <2>3 DEF Holder
      <3>2. job.state \in {"running", "uncertain"}
        BY <2>3, <3>1, HeldRow
      <3>3. /\ Untouched(w) => effects[j] = 0
            /\ Records(w, Definite(Kind[j])) => effects[j] = 0
            /\ effects[j] <= 1
        BY <3>1 DEF Exclusive
      <3>4. worker[w].outcome = "retry" => effects[j] = 0
        BY <2>1, <3>3 DEF Untouched, Records
      <3>5. worker[w].outcome \in Definite(Kind[j]) => effects[j] = 0
        BY <2>1, <3>3 DEF Records
      <3>6. /\ worker[w].outcome = "retry" \/ new.state = worker[w].outcome
            /\ new.state = "pending" => worker[w].outcome = "retry"
            /\ new.state # "none"
            /\ Ended(job, "uncertain").state = "uncertain"
        BY <2>1, EndedTyped, RequeuedTyped
      <3>7. jobs'[j].state \in {job.state, "uncertain", new.state}
        BY <2>1, <2>2, <2>3, <3>6, AnswerCases
      <3>8. {job.state, "uncertain"} \cap Definite(Kind[j]) = {}
        BY <3>2, DefiniteFails
      <3>9. /\ jobs'[j].state \in {"none", "pending"} => effects[j] = 0
            /\ jobs'[j].state \in Definite(Kind[j]) => effects[j] = 0
        BY <3>2, <3>4, <3>5, <3>6, <3>7, <3>8
      <3> QED  BY <2>1, <3>1, <3>3, <3>9, LetGo
    <2>4. CASE worker[w].job # j
      BY <2>1, <2>2, <2>4, Bystander DEF Holder
    <2> QED  BY <2>3, <2>4
  <1>8. ASSUME NEW w \in Workers, RecordFails(w) PROVE Exclusive(j)'
    <2>1. /\ worker[w] # Idle /\ worker[w].job \in Jobs /\ jobs' = jobs /\ effects' = effects
          /\ worker[w].phase = "returned" /\ worker[w].outcome # "push"
      BY <1>8, Busy, WorkerTyped DEF RecordFails
    <2>2. PICK o \in {"busy", "uncertain"} :
              /\ o = "busy" => Kind[worker[w].job] # "tool"
              /\ worker' = [worker EXCEPT ![w] = Raised(w, o)]
      BY <1>8 DEF RecordFails
    <2>3. /\ Raised(w, o) # Idle /\ Raised(w, o).job = worker[w].job
          /\ Raised(w, o).phase = "raised" /\ Raised(w, o).outcome = o
      BY DEF Raised
    <2>4. CASE worker[w].job = j
      <3>1. Holder(w, j)
        BY <2>1, <2>4 DEF Holder
      <3>2. /\ worker'[w] = Raised(w, o) /\ effects[j] <= 1
            /\ \A x \in Workers \ {w} : worker'[x] = worker[x]
        BY <2>2, <3>1 DEF Exclusive
      <3>3. Kind[j] # "git"
        BY <2>1, <3>1 DEF Exclusive, Tried
      <3>4. o \notin Definite(Kind[j])
        BY <2>2, <2>4, <3>3 DEF Definite, Once
      <3>5. Holder(w, j)' /\ ~Untouched(w)' /\ ~Records(w, Definite(Kind[j]))'
        BY <2>3, <2>4, <3>2, <3>4 DEF Holder, Untouched, Records
      <3> QED  BY <2>1, <2>3, <3>1, <3>2, <3>5, MovesOn
    <2>5. CASE worker[w].job # j
      BY <2>1, <2>2, <2>3, <2>5, Bystander DEF Holder
    <2> QED  BY <2>4, <2>5
  <1>9. ASSUME NEW w \in Workers, Push(w) PROVE Exclusive(j)'
    <2>1. /\ worker[w] # Idle /\ worker[w].phase = "returned" /\ worker[w].outcome = "push"
          /\ worker[w].job \in Jobs
      BY <1>9, Busy, WorkerTyped DEF Push
    <2>2. \A o \in {"failed", "busy", "uncertain"} :
              /\ Raised(w, o) # Idle /\ Raised(w, o).job = worker[w].job
              /\ Raised(w, o).phase = "raised" /\ Raised(w, o).outcome = o
      BY DEF Raised
    <2>3. CASE worker[w].job = j
      <3>1. Holder(w, j) /\ effects[j] = 0
        BY <2>1, <2>3 DEF Holder, Exclusive, Untouched, Records
      <3>2. jobs[j].state \in {"running", "uncertain"}
        BY <3>1, HeldRow
      <3>3. ASSUME NEW o \in {"failed", "busy", "uncertain"}, jobs' = jobs, effects' = effects,
                   worker' = [worker EXCEPT ![w] = Raised(w, o)]
            PROVE  Exclusive(j)'
        <4>1. /\ worker'[w] = Raised(w, o)
              /\ \A x \in Workers \ {w} : worker'[x] = worker[x]
          BY <3>3
        <4>2. Holder(w, j)' /\ worker'[w].phase # "returned"
          BY <2>2, <2>3, <4>1 DEF Holder
        <4> QED  BY <3>1, <3>3, <4>1, <4>2, MovesOn
      <3>4. ASSUME jobs' = [jobs EXCEPT ![j] = Answer(@, worker[w].attempt, @)],
                   worker' = [worker EXCEPT ![w] = Idle], effects' = effects
            PROVE  Exclusive(j)'
        <4>1. jobs'[j].state \in {"running", "uncertain"}
          BY <3>2, <3>4, AnswerCases, EndedTyped
        <4>2. effects'[j] <= 1
          BY <3>1, <3>4
        <4> QED  BY <3>1, <3>4, <4>1, <4>2, DefiniteFails, LetGo
      <3>5. ASSUME effects' = [effects EXCEPT ![j] = @ + 1],
                   worker' = [worker EXCEPT ![w] = Idle],
                   jobs' \in {jobs, [jobs EXCEPT ![j] = Ended(@, "done")]}
            PROVE  Exclusive(j)'
        <4>1. jobs'[j].state \in {"running", "uncertain", "done"}
          BY <3>2, <3>5, EndedTyped
        <4>2. effects'[j] = 1
          BY <3>1, <3>5
        <4>3. effects'[j] <= 1
          BY <4>2
        <4> QED  BY <3>1, <3>5, <4>1, <4>3, DefiniteFails, LetGo
      <3>6. ASSUME effects' = [effects EXCEPT ![j] = @ + 1], jobs' = jobs,
                   worker' = [worker EXCEPT ![w] = Raised(w, "uncertain")]
            PROVE  Exclusive(j)'
        <4>1. effects'[j] = 1
          BY <3>1, <3>6
        <4>2. /\ worker'[w] = Raised(w, "uncertain")
              /\ \A x \in Workers \ {w} : worker'[x] = worker[x]
          BY <3>6
        <4>3. /\ Holder(w, j)' /\ ~Untouched(w)' /\ ~Records(w, Definite(Kind[j]))'
              /\ worker'[w].phase # "returned"
          BY <2>2, <2>3, <4>2, DefiniteFails DEF Holder, Untouched, Records
        <4> QED  BY <3>1, <3>6, <4>1, <4>2, <4>3, MovesOn
      <3> QED  BY <1>9, <2>3, <3>3, <3>4, <3>5, <3>6 DEF Push
    <2>4. CASE worker[w].job # j
      <3>1. jobs'[j] = jobs[j] /\ effects'[j] = effects[j]
        BY <1>9, <2>4 DEF Push
      <3>2. worker' \in {[worker EXCEPT ![w] = Idle], [worker EXCEPT ![w] = Raised(w, "failed")],
                         [worker EXCEPT ![w] = Raised(w, "busy")],
                         [worker EXCEPT ![w] = Raised(w, "uncertain")]}
        BY <1>9 DEF Push
      <3>3. \A x \in Workers : Holder(x, j)' => worker'[x] = worker[x]
        BY <2>2, <2>4, <3>2 DEF Holder
      <3> QED  BY <3>1, <3>3, Bystander
    <2> QED  BY <2>3, <2>4
  <1>10. ASSUME NEW w \in Workers, Crash(w) PROVE Exclusive(j)'
    BY <1>10, Bystander DEF Crash, Holder
  <1>11. ASSUME NEW i \in Jobs, LeaseExpires(i) PROVE Exclusive(j)'
    <2>1. jobs'[j].state = jobs[j].state
      BY <1>11 DEF LeaseExpires, JobRecord
    <2> QED  BY <1>11, <2>1, Bystander DEF LeaseExpires
  <1>12. ASSUME NEW i \in Jobs, Backoff(i) PROVE Exclusive(j)'
    <2>1. jobs'[j].state = jobs[j].state
      BY <1>12 DEF Backoff, JobRecord
    <2> QED  BY <1>12, <2>1, Bystander DEF Backoff
  <1>13. ASSUME NEW i \in Jobs, Disallow(i) PROVE Exclusive(j)'
    BY <1>13, Bystander DEF Disallow
  <1>14. CASE UNCHANGED vars
    BY <1>14, Bystander DEF vars
  <1> QED
    BY <1>1, <1>2, <1>3, <1>4, <1>5, <1>6, <1>7, <1>8, <1>9, <1>10, <1>11, <1>12,
       <1>13, <1>14 DEF Next, RunOnce, JobStep

(* TypeOK /\ QueueSound is inductive: whatever is queued again has not     *)
(* happened, and nobody is still working on it.                            *)
THEOREM QueueInvariance == Spec => [](TypeOK /\ QueueSound)
  <1>1. Init => TypeOK /\ QueueSound
    BY InitTyped, InitSound
  <1>2. TypeOK /\ QueueSound /\ [Next]_vars => (TypeOK /\ QueueSound)'
    <2>1. SUFFICES ASSUME TypeOK, QueueSound, [Next]_vars PROVE QueueSound'
      BY StepTyped
    <2>2. DoneHappened'
      BY <2>1, StepDone DEF QueueSound
    <2>3. OneHolder'
      BY <2>1, StepExclusive DEF QueueSound, OneHolder
    <2> QED  BY <2>2, <2>3 DEF QueueSound
  <1> QED  BY <1>1, <1>2, PTL DEF Spec

(* A mail, a tool run and a push happen at most once.                      *)
THEOREM HappensAtMostOnce == Spec => []AtMostOnce
  <1>1. TypeOK /\ QueueSound => AtMostOnce
    BY DEF QueueSound, OneHolder, Exclusive, AtMostOnce
  <1> QED  BY <1>1, QueueInvariance, PTL

(* What is reported done happened; what is reported as a definite failure  *)
(* (of a mail any but server_busy, of a tool run server_busy, of a push    *)
(* any) did not.                                                           *)
THEOREM StatusIsHonest == Spec => []HonestStatus
  <1>1. TypeOK /\ QueueSound => HonestStatus
    BY DEF QueueSound, DoneHappened, OneHolder, Exclusive, HonestStatus, Once, Definite, TypeOK
  <1> QED  BY <1>1, QueueInvariance, PTL

-----------------------------------------------------------------------------
(* Verdicts.                                                               *)

(* What may become of a row that has a verdict.                            *)
Stands(j) ==
    jobs[j].state \in Ends =>
        \/ jobs'[j].state = jobs[j].state
        \/ /\ jobs'[j].state = "pruned" /\ Kind[j] = "webhook"
           /\ jobs[j].state # "uncertain"

(* No action touches a verdict but the capacity check of a new webhook.    *)
LEMMA StepStands ==
    ASSUME TypeOK, NEW j \in Jobs, [Next]_vars
    PROVE  Stands(j)
  <1> USE DEF TypeOK
  <1>1. ASSUME NEW i \in Jobs, Enqueue(i) PROVE Stands(j)
    <2>1. jobs[i].state = "none"
      BY <1>1 DEF Enqueue
    <2>2. \/ jobs'[j] = jobs[j] \/ i = j
          \/ j \in Prunable /\ jobs'[j] = [jobs[j] EXCEPT !.state = "pruned"]
      BY <1>1 DEF Enqueue, kSubset
    <2>3. [jobs[j] EXCEPT !.state = "pruned"].state = "pruned"
      BY DEF JobRecord
    <2> QED  BY <2>1, <2>2, <2>3 DEF Stands, Prunable, Webhooks
  <1>2. ASSUME NEW w \in Workers, Sweep(w) PROVE Stands(j)
    BY <1>2 DEF Sweep, Orphans, Stands
  <1>3. ASSUME NEW w \in Workers, NEW i \in Jobs, Claim(w, i) PROVE Stands(j)
    BY <1>3 DEF Claim, Claimable, Stands
  <1>4. ASSUME NEW w \in Workers, NEW i \in Jobs, RejectTool(w, i) PROVE Stands(j)
    BY <1>4 DEF RejectTool, Claimable, Stands
  <1>5. ASSUME NEW w \in Workers, Authorize(w) \/ Perform(w) \/ RecordFails(w) \/ Crash(w)
        PROVE  Stands(j)
    BY <1>5 DEF Authorize, Perform, RecordFails, Crash, Stands
  <1>6. ASSUME NEW w \in Workers, Record(w) PROVE Stands(j)
    BY <1>6, AnswerCases DEF Record, Stands
  <1>7. ASSUME NEW w \in Workers, Push(w) PROVE Stands(j)
    BY <1>7, AnswerCases DEF Push, Live, Stands
  <1>8. ASSUME NEW i \in Jobs, LeaseExpires(i) \/ Backoff(i) \/ Disallow(i) PROVE Stands(j)
    <2>1. jobs'[j].state = jobs[j].state
      BY <1>8 DEF LeaseExpires, Backoff, Disallow, JobRecord
    <2> QED  BY <2>1 DEF Stands
  <1>9. CASE UNCHANGED vars
    BY <1>9 DEF vars, Stands
  <1> QED
    BY <1>1, <1>2, <1>3, <1>4, <1>5, <1>6, <1>7, <1>8, <1>9 DEF Next, RunOnce, JobStep

(* No late worker, sweep or retry changes or reopens a verdict, and an     *)
(* undecided delivery is never dropped.                                    *)
THEOREM VerdictsAlwaysStand == Spec => VerdictsStand
  <1>1. TypeOK /\ [Next]_vars =>
            [\A j \in Jobs : jobs[j].state \in Ends =>
                \/ jobs'[j].state = jobs[j].state
                \/ /\ jobs'[j].state = "pruned" /\ Kind[j] = "webhook"
                   /\ jobs[j].state # "uncertain"]_vars
    BY StepStands DEF Stands
  <1> QED  BY <1>1, QueueTyped, PTL DEF Spec, VerdictsStand

-----------------------------------------------------------------------------
(* Whose answer counts.                                                    *)

(* A worker that lets go of the job whose running attempt it made.         *)
Decides(w, j) ==
    /\ worker[w] # Idle /\ worker'[w] = Idle
    /\ worker[w].job = j /\ worker[w].attempt = jobs[j].attempts
    /\ jobs[j].lease = "live"

(* Nothing but an answer within the lease turns running into done.         *)
LEMMA StepDecided ==
    ASSUME TypeOK, NEW j \in Jobs, [Next]_vars,
           jobs[j].state = "running", jobs[j].lease # "none", jobs'[j].state = "done"
    PROVE  \E w \in Workers : Decides(w, j)
  <1> USE DEF TypeOK
  <1>1. ASSUME NEW i \in Jobs, Enqueue(i) PROVE FALSE
    <2>1. [jobs[j] EXCEPT !.state = "pruned"].state = "pruned" /\ Pending.state = "pending"
      BY DEF JobRecord, Pending
    <2>2. jobs'[j] \in {jobs[j], Pending, [jobs[j] EXCEPT !.state = "pruned"]}
      BY <1>1 DEF Enqueue
    <2> QED  BY <2>1, <2>2
  <1>2. ASSUME NEW w \in Workers, Sweep(w) PROVE FALSE
    <2>1. \A i \in Jobs : Swept(i).state \in {"pending", "failed", "uncertain"}
      BY EndedTyped, RequeuedTyped DEF Swept
    <2> QED  BY <1>2, <2>1 DEF Sweep, Orphans
  <1>3. ASSUME NEW w \in Workers, NEW i \in Jobs, Claim(w, i) \/ RejectTool(w, i) PROVE FALSE
    BY <1>3, EndedTyped DEF Claim, RejectTool, Claimable
  <1>4. ASSUME NEW w \in Workers, Authorize(w) \/ Perform(w) \/ RecordFails(w) \/ Crash(w)
        PROVE  FALSE
    BY <1>4 DEF Authorize, Perform, RecordFails, Crash
  <1>5. ASSUME NEW w \in Workers, Record(w) PROVE Decides(w, j)
    <2>1. worker[w] # Idle /\ worker[w].job \in Jobs
      BY <1>5, Busy, WorkerTyped DEF Record
    <2>2. worker'[w] = Idle /\ worker[w].job = j
      BY <1>5, <2>1 DEF Record
    <2>3. Ended(jobs[j], "uncertain").state = "uncertain"
      BY EndedTyped
    <2>4. worker[w].attempt = jobs[j].attempts /\ jobs[j].lease # "expired"
      BY <1>5, <2>2, <2>3 DEF Record, Answer
    <2>5. worker[w].outcome = "done" /\ jobs[j].lease = "live"
      <3>1. worker[w].outcome \in Outcomes /\ worker[w].outcome # "push"
        BY <1>5, <2>1, WorkerTyped DEF Record
      <3>2. /\ Requeued(jobs[j]).state # "done"
            /\ \A s \in Ends : Ended(jobs[j], s).state = s
        BY EndedTyped, RequeuedTyped
      <3>3. jobs[j].lease \in {"live", "none", "expired"}
        BY DEF JobRecord
      <3> QED  BY <1>5, <2>2, <2>3, <2>4, <3>1, <3>2, <3>3 DEF Record, Answer, Outcomes
    <2> QED  BY <2>1, <2>2, <2>4, <2>5 DEF Decides
  <1>6. ASSUME NEW w \in Workers, Push(w) PROVE Decides(w, j)
    <2>1. worker[w] # Idle /\ worker[w].job \in Jobs
      BY <1>6, Busy, WorkerTyped DEF Push
    <2>2. Ended(jobs[j], "uncertain").state = "uncertain"
      BY EndedTyped
    <2>3. worker[w].job = j
      BY <1>6, <2>1 DEF Push
    <2>4. Answer(jobs[j], worker[w].attempt, jobs[j]).state # "done"
      BY <2>2, AnswerCases
    <2>5. Live(w) /\ worker'[w] = Idle
      BY <1>6, <2>1, <2>3, <2>4 DEF Push
    <2> QED  BY <2>1, <2>3, <2>5 DEF Decides, Live
  <1>7. ASSUME NEW i \in Jobs, LeaseExpires(i) \/ Backoff(i) \/ Disallow(i) PROVE FALSE
    <2>1. jobs'[j].state = jobs[j].state
      BY <1>7 DEF LeaseExpires, Backoff, Disallow, JobRecord
    <2> QED  BY <2>1
  <1>8. CASE UNCHANGED vars
    BY <1>8 DEF vars
  <1> QED
    BY <1>1, <1>2, <1>3, <1>4, <1>5, <1>6, <1>7, <1>8 DEF Next, RunOnce, JobStep

(* A row that runs is under a lease, the one of its claim.                 *)
Leased == \A j \in Jobs : jobs[j].state = "running" => jobs[j].lease # "none"

LEMMA StepLeased ==
    ASSUME TypeOK, Leased, [Next]_vars
    PROVE  Leased'
  <1> SUFFICES ASSUME NEW j \in Jobs, jobs'[j].state = "running"
               PROVE  jobs'[j].lease # "none"
    BY DEF Leased
  <1> USE DEF TypeOK, Leased
  <1>1. CASE jobs'[j] = jobs[j]
    BY <1>1
  <1>2. \A s \in Ends : Ended(jobs[j], s).state = s
    BY EndedTyped
  <1>3. ASSUME NEW i \in Jobs, Enqueue(i) PROVE jobs'[j] = jobs[j]
    <2>1. [jobs[j] EXCEPT !.state = "pruned"].state = "pruned" /\ Pending.state = "pending"
      BY DEF JobRecord, Pending
    <2> QED  BY <1>3, <2>1 DEF Enqueue
  <1>4. ASSUME NEW w \in Workers, Sweep(w) PROVE jobs'[j] = jobs[j]
    <2>1. \A i \in Jobs : Swept(i).state \in {"pending", "failed", "uncertain"}
      BY EndedTyped, RequeuedTyped DEF Swept
    <2> QED  BY <1>4, <2>1 DEF Sweep, Orphans
  <1>5. ASSUME NEW w \in Workers, NEW i \in Jobs, Claim(w, i) PROVE jobs'[j].lease # "none"
    <2>1. i = j => jobs'[j].lease = "live"
      BY <1>5 DEF Claim, JobRecord
    <2> QED  BY <1>1, <1>5, <2>1 DEF Claim
  <1>6. ASSUME NEW w \in Workers, NEW i \in Jobs, RejectTool(w, i) PROVE jobs'[j] = jobs[j]
    BY <1>2, <1>6 DEF RejectTool
  <1>7. ASSUME NEW w \in Workers, Authorize(w) \/ Perform(w) \/ RecordFails(w) \/ Crash(w)
        PROVE  jobs'[j] = jobs[j]
    BY <1>7 DEF Authorize, Perform, RecordFails, Crash
  <1>8. ASSUME NEW w \in Workers, Record(w) PROVE jobs'[j] = jobs[j]
    <2>1. /\ worker[w] # Idle /\ worker[w].job \in Jobs
          /\ worker[w].outcome \in Ends \cup {"retry"}
      BY <1>8, Busy, WorkerTyped DEF Record, Outcomes
    <2>2. Requeued(jobs[j]).state # "running"
      BY RequeuedTyped
    <2> QED  BY <1>2, <1>8, <2>1, <2>2, AnswerCases DEF Record
  <1>9. ASSUME NEW w \in Workers, Push(w) PROVE jobs'[j] = jobs[j]
    <2>1. worker[w] # Idle /\ worker[w].job \in Jobs
      BY <1>9, Busy, WorkerTyped DEF Push
    <2> QED  BY <1>2, <1>9, <2>1, AnswerCases DEF Push
  <1>10. ASSUME NEW i \in Jobs, LeaseExpires(i) PROVE jobs'[j].lease # "none"
    <2>1. i = j => jobs'[j].lease = "expired"
      BY <1>10 DEF LeaseExpires, JobRecord
    <2> QED  BY <1>1, <1>10, <2>1 DEF LeaseExpires
  <1>11. ASSUME NEW i \in Jobs, Backoff(i) \/ Disallow(i)
         PROVE  jobs'[j].state = jobs[j].state /\ jobs'[j].lease = jobs[j].lease
    BY <1>11 DEF Backoff, Disallow, JobRecord
  <1>12. CASE UNCHANGED vars
    BY <1>1, <1>12 DEF vars
  <1> QED
    BY <1>1, <1>3, <1>4, <1>5, <1>6, <1>7, <1>8, <1>9, <1>10, <1>11, <1>12
       DEF Next, RunOnce, JobStep

(* current_attempt(): only the worker of the running attempt, and only     *)
(* within its lease, has a job reported done.                              *)
THEOREM OwnAttemptDecides == Spec => OwnAttemptOnly
  <1>1. Init => Leased
    <2>1. [Pending EXCEPT !.state = "none"].state = "none"
      BY DEF Pending
    <2> QED  BY <2>1 DEF Init, Leased
  <1>2. TypeOK /\ Leased /\ [Next]_vars => Leased'
    BY StepLeased
  <1>3. TypeOK /\ Leased /\ [Next]_vars =>
            [\A j \in Jobs : jobs[j].state = "running" /\ jobs'[j].state = "done" =>
                \E w \in Workers :
                    /\ worker[w] # Idle /\ worker'[w] = Idle
                    /\ worker[w].job = j /\ worker[w].attempt = jobs[j].attempts
                    /\ jobs[j].lease = "live"]_vars
    BY StepDecided DEF Decides, Leased
  <1> QED  BY <1>1, <1>2, <1>3, QueueTyped, PTL DEF Spec, OwnAttemptOnly

-----------------------------------------------------------------------------
(* Slots.                                                                  *)

(* The rows ToolSlots counts.                                              *)
Running == {x \in Jobs : Kind[x] = "tool" /\ jobs[x].state = "running"}

(* Only a claim adds a running tool row, and it found a free slot.         *)
LEMMA StepRunning ==
    ASSUME TypeOK, [Next]_vars
    PROVE  \/ Running' \subseteq Running
           \/ Cardinality(Running) < Concurrency /\ \E j \in Jobs : Running' \subseteq Running \cup {j}
  <1> USE DEF TypeOK
  <1>1. ASSUME NEW w \in Workers, NEW i \in Jobs, Claim(w, i), Kind[i] = "tool"
        PROVE  Cardinality(Running) < Concurrency /\ Running' \subseteq Running \cup {i}
    BY <1>1 DEF Claim, Slots, Running
  <1>2. ASSUME \A j \in Jobs : Kind[j] = "tool" /\ jobs'[j].state = "running"
                                 => jobs[j].state = "running"
        PROVE  Running' \subseteq Running
    BY <1>2 DEF Running
  <1>3. ASSUME NEW w \in Workers, NEW i \in Jobs, Claim(w, i), Kind[i] # "tool"
        PROVE  Running' \subseteq Running
    BY <1>2, <1>3 DEF Claim
  <1>4. ASSUME NEW i \in Jobs, Enqueue(i) PROVE Running' \subseteq Running
    <2>1. \A j \in Jobs : [jobs[j] EXCEPT !.state = "pruned"].state = "pruned"
      BY DEF JobRecord
    <2>2. Pending.state = "pending"
      BY DEF Pending
    <2>3. \A j \in Jobs : jobs'[j].state = "running" => jobs[j].state = "running"
      BY <1>4, <2>1, <2>2 DEF Enqueue
    <2> QED  BY <1>2, <2>3
  <1>5. ASSUME NEW w \in Workers, Sweep(w) PROVE Running' \subseteq Running
    BY <1>2, <1>5 DEF Sweep, Orphans
  <1>6. ASSUME NEW w \in Workers, NEW i \in Jobs, RejectTool(w, i) PROVE Running' \subseteq Running
    BY <1>2, <1>6, EndedTyped DEF RejectTool
  <1>7. ASSUME NEW w \in Workers, Authorize(w) \/ Perform(w) \/ RecordFails(w) \/ Crash(w)
        PROVE  Running' \subseteq Running
    BY <1>2, <1>7 DEF Authorize, Perform, RecordFails, Crash
  <1>8. ASSUME NEW w \in Workers, Record(w) PROVE Running' \subseteq Running
    BY <1>2, <1>8, AnswerCases DEF Record
  <1>9. ASSUME NEW w \in Workers, Push(w) PROVE Running' \subseteq Running
    <2>1. worker[w].job \in Jobs
      BY <1>9, Busy, WorkerTyped DEF Push
    <2>2. jobs[worker[w].job] \in JobRecord
      BY <2>1
    <2>3. \A j \in Jobs : jobs'[j].state = "running" => jobs[j].state = "running"
      BY <1>9, <2>1, <2>2, AnswerCases, EndedTyped DEF Push
    <2> QED  BY <1>2, <2>3
  <1>10. ASSUME NEW i \in Jobs, LeaseExpires(i) \/ Backoff(i) \/ Disallow(i)
         PROVE  Running' \subseteq Running
    BY <1>2, <1>10 DEF LeaseExpires, Backoff, Disallow, JobRecord
  <1>11. CASE UNCHANGED vars
    BY <1>2, <1>11 DEF vars
  <1> QED
    BY <1>1, <1>3, <1>4, <1>5, <1>6, <1>7, <1>8, <1>9, <1>10, <1>11 DEF Next, RunOnce, JobStep

(* A tool's running rows never exceed what it declares.                    *)
THEOREM ToolSlotsKept == Spec => []ToolSlots
  <1>1. Init => ToolSlots
    <2>1. Init => Running = {}
      BY DEF Init, Running, Pending
    <2>2. Cardinality({}) <= Concurrency
      BY FS_EmptySet
    <2>3. ToolSlots <=> Cardinality(Running) <= Concurrency
      BY DEF ToolSlots, Running
    <2> QED  BY <2>1, <2>2, <2>3
  <1>2. TypeOK /\ ToolSlots /\ [Next]_vars => ToolSlots'
    <2> SUFFICES ASSUME TypeOK, ToolSlots, [Next]_vars PROVE Cardinality(Running') <= Concurrency
      BY DEF ToolSlots, Running
    <2>1. IsFiniteSet(Running) /\ Running \subseteq Jobs /\ Cardinality(Running) <= Concurrency
      BY FS_Subset DEF Running, ToolSlots
    <2>2. Cardinality(Running) \in Nat
      BY <2>1, FS_CardinalityType
    <2>3. CASE Running' \subseteq Running
      <3>1. Cardinality(Running') <= Cardinality(Running) /\ Cardinality(Running') \in Nat
        BY <2>1, <2>3, FS_Subset, FS_CardinalityType
      <3> QED  BY <2>1, <2>2, <3>1
    <2>4. ASSUME Cardinality(Running) < Concurrency, NEW j \in Jobs,
                 Running' \subseteq Running \cup {j}
          PROVE  Cardinality(Running') <= Concurrency
      <3>1. CASE j \in Running
        BY <2>2, <2>3, <2>4, <3>1
      <3>2. CASE j \notin Running
        <4>1. /\ IsFiniteSet(Running \cup {j})
              /\ Cardinality(Running \cup {j}) = Cardinality(Running) + 1
          BY <2>1, <3>2, FS_AddElement
        <4>2. /\ Cardinality(Running') <= Cardinality(Running \cup {j})
              /\ Cardinality(Running') \in Nat
          BY <2>4, <4>1, FS_Subset, FS_CardinalityType
        <4> QED  BY <2>2, <2>4, <4>1, <4>2
      <3> QED  BY <3>1, <3>2
    <2> QED  BY <2>3, <2>4, StepRunning
  <1> QED  BY <1>1, <1>2, QueueTyped, PTL DEF Spec

(* The queue never repeats what must happen once and never misreports it.  *)
THEOREM EffectsAlwaysSound == Spec => []EffectsSound
  <1>1. TypeOK /\ AtMostOnce /\ HonestStatus /\ QueueSound => EffectsSound
    BY DEF EffectsSound
  <1> QED
    BY <1>1, QueueInvariance, HappensAtMostOnce, StatusIsHonest, PTL
=============================================================================
