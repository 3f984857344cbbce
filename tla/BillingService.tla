--------------------------- MODULE BillingService ---------------------------
(***************************************************************************)
(* The billing engine driven the way the deployment drives it: scheduler   *)
(* ticks put one job per due subscription and period on the BullMQ queue,  *)
(* workers take jobs and run processBillingCycle, a job whose call throws  *)
(* is tried again, and the job of a worker that died is recovered.         *)
(***************************************************************************)
EXTENDS BillingEngine

CONSTANTS
  Manual,      \* slots for jobs added by POST /billing/run and /payments/:id/retry
  ManualOps,   \* which of the three manual routes are used
  Attempts,    \* tries a job gets (attempts: 3)
  Evicts       \* other jobs push the finished ones out of the retained 100 and 500

ASSUME ServiceAssumption ==
  /\ ManualOps \subseteq {"run", "retry", "inline"}
  /\ Attempts \in Nat \ {0}
  /\ Manual \cap (Subs \X Dates) = {}
  /\ Evicts \in BOOLEAN

VARIABLES
  jobs,    \* the billing queue: the job kept under each id
  ticks    \* what a scheduler tick still has to enqueue (Ticks = Sweepers)

serviceVars == <<vars, jobs, ticks>>

\* billing:{subscription}:{period end}; the ids of manual jobs are never used twice.
Scheduled == Subs \X Dates
JobIds == Scheduled \cup Manual

NoJob == [state |-> "absent", sub |-> None, tries |-> 0, stalls |-> 0, by |-> None]
NewJob(s) == [NoJob EXCEPT !.state = "waiting", !.sub = s]
Job == [state : {"absent", "waiting", "active", "stalled", "completed", "failed"},
        sub : Subs \cup {None}, tries : Nat, stalls : Nat, by : Cycles \cup {None}]

IdleTick == [pc |-> "idle", todo |-> {}]

ServiceInit ==
  /\ Init
  /\ jobs = [j \in JobIds |-> NoJob]
  /\ ticks = [t \in Sweepers |-> IdleTick]

-----------------------------------------------------------------------------
(* The scheduler: scheduleBillingJobs.  Ticks overlap.  A tick with nothing *)
(* due and nothing expired changes nothing and is left out.                 *)

\* Faulty ReadDue: the job ids do not name the period.
ReadDueWithoutPeriod(t) ==
  /\ ticks[t].pc = "idle" /\ sweeps[t].pc = "idle"
  /\ \E s \in Subs : Due(s) \/ Expired(s)
  /\ ticks' = [ticks EXCEPT ![t] = [pc |-> "add", todo |-> {<<s>> : s \in {x \in Subs : Due(x)}}]]
  /\ UNCHANGED <<vars, jobs>>

ReadDue(t) ==
  /\ ticks[t].pc = "idle" /\ sweeps[t].pc = "idle"
  /\ \E s \in Subs : Due(s) \/ Expired(s)
  /\ ticks' = [ticks EXCEPT ![t] =
       [pc |-> "add", todo |-> {<<s, subs[s].end>> : s \in {x \in Subs : Due(x)}}]]
  /\ UNCHANGED <<vars, jobs>>

\* Faulty AddJob: no jobId, every tick's job is a new one.
AddJobAlways(t) ==
  /\ ticks[t].pc = "add"
  /\ \E j \in ticks[t].todo :
       /\ ticks' = [ticks EXCEPT ![t].todo = @ \ {j}]
       /\ jobs' = [jobs EXCEPT ![j] = NewJob(j[1])]
  /\ UNCHANGED vars

\* Faulty AddJob: finished jobs are removed at once, so they no longer deduplicate.
AddJobAfterEnd(t) ==
  /\ ticks[t].pc = "add"
  /\ \E j \in ticks[t].todo :
       /\ ticks' = [ticks EXCEPT ![t].todo = @ \ {j}]
       /\ jobs' = IF jobs[j].state \in {"absent", "completed", "failed"}
                    THEN [jobs EXCEPT ![j] = NewJob(j[1])] ELSE jobs
  /\ UNCHANGED vars

\* queue.add: nothing happens if a job with this id is still kept, in any state.
AddJob(t) ==
  /\ ticks[t].pc = "add"
  /\ \E j \in ticks[t].todo :
       /\ ticks' = [ticks EXCEPT ![t].todo = @ \ {j}]
       /\ jobs' = IF jobs[j] = NoJob THEN [jobs EXCEPT ![j] = NewJob(j[1])] ELSE jobs
  /\ UNCHANGED vars

\* All are added: expireGracePeriods begins.
BeginSweep(t) ==
  /\ ticks[t].pc = "add" /\ ticks[t].todo = {}
  /\ ticks' = [ticks EXCEPT ![t] = IdleTick]
  /\ IF \E s \in Subs : Expired(s)
       THEN FindExpired(t) /\ UNCHANGED <<cycleVars, requests>>
       ELSE UNCHANGED vars
  /\ UNCHANGED jobs

SweepOn(t) ==
  /\ \/ \E s \in Subs : CancelExpired(t, s)
     \/ EmitCancelled(t)
  /\ UNCHANGED <<cycleVars, requests, jobs, ticks>>

\* A rejected call or a crash ends the tick.
AbortTick(t) ==
  /\ ticks[t].pc # "idle" \/ sweeps[t].pc # "idle"
  /\ AbortSweep(t)
  /\ ticks' = [ticks EXCEPT ![t] = IdleTick]
  /\ UNCHANGED <<cycleVars, requests, jobs>>

-----------------------------------------------------------------------------
(* The queue and its workers.                                               *)

TakeJob(j, c) ==
  /\ jobs[j].state = "waiting"
  /\ Start(c, jobs[j].sub)
  /\ jobs' = [jobs EXCEPT ![j].state = "active", ![j].by = c]
  /\ UNCHANGED <<sweeps, requests, ticks>>

\* The outcome of the call is the outcome of the job; one that threw is tried
\* again (after its backoff) until its attempts are used up.
FinishJob(j) ==
  /\ jobs[j].state = "active"
  /\ LET c == jobs[j].by
         done == [jobs[j] EXCEPT !.state = "completed", !.by = None]
         again == [jobs[j] EXCEPT !.state = "waiting", !.by = None, !.tries = @ + 1]
         gone == [jobs[j] EXCEPT !.state = "failed", !.by = None, !.tries = @ + 1]
     IN /\ Finish(c)
        /\ jobs' = [jobs EXCEPT ![j] =
             IF At(c, "threw") /\ @.tries + 1 < Attempts THEN again
             ELSE IF j \in Manual THEN NoJob
             ELSE IF At(c, "threw") THEN gone
             ELSE done]
  /\ UNCHANGED <<sweeps, requests, ticks>>

\* Faulty CrashWorker: the job of a dead worker stays active.
CrashUnnoticed(c) ==
  /\ Crash(c)
  /\ UNCHANGED <<sweeps, requests, jobs, ticks>>

\* Faulty RecoverJob: a job that stalled is given up at once.
GiveUpJob(j) ==
  /\ jobs[j].state = "stalled"
  /\ jobs' = [jobs EXCEPT ![j] = IF j \in Manual THEN NoJob ELSE [@ EXCEPT !.state = "failed"]]
  /\ UNCHANGED <<vars, ticks>>

\* The worker dies; the stalled-job check finds the job without a live lock and
\* puts it back, once: a job that stalls a second time fails.
CrashWorker(c) ==
  /\ Crash(c)
  /\ jobs' = [j \in JobIds |-> IF jobs[j].by = c
                                 THEN [jobs[j] EXCEPT !.state = "stalled", !.by = None]
                                 ELSE jobs[j]]
  /\ UNCHANGED <<sweeps, requests, ticks>>

RecoverJob(j) ==
  /\ jobs[j].state = "stalled"
  /\ jobs' = [jobs EXCEPT ![j] =
       IF @.stalls = 0 THEN [@ EXCEPT !.state = "waiting", !.stalls = 1]
       ELSE IF j \in Manual THEN NoJob ELSE [@ EXCEPT !.state = "failed"]]
  /\ UNCHANGED <<vars, ticks>>

\* removeOnComplete and removeOnFail: with enough other traffic the id is free again.
Evict(j) ==
  /\ Evicts /\ j \in Scheduled
  /\ jobs[j].state \in {"completed", "failed"}
  /\ jobs' = [jobs EXCEPT ![j] = NoJob]
  /\ UNCHANGED <<vars, ticks>>

\* POST /billing/run/:id takes any subscription, POST /payments/:id/retry one with a
\* payment that failed; both bill whatever period is current when the job runs.
AddManualJob(m, s) ==
  /\ jobs[m] = NoJob /\ Exists(s)
  /\ \/ "run" \in ManualOps
     \/ "retry" \in ManualOps /\ \E e \in Dates : payments[s][e] \in {"FAILED", "RETRYING"}
  /\ jobs' = [jobs EXCEPT ![m] = NewJob(s)]
  /\ UNCHANGED <<vars, ticks>>

\* POST /billing/run-inline bills in the request, without a job.
RunInline(c) ==
  /\ \/ "inline" \in ManualOps /\ \E s \in Subs : Start(c, s)
     \/ (\A j \in JobIds : jobs[j].by # c) /\ Finish(c)
  /\ UNCHANGED <<sweeps, requests, jobs, ticks>>

-----------------------------------------------------------------------------

Working(c) == (CycleStep(c) \/ CycleFault(c)) /\ UNCHANGED <<sweeps, requests, jobs, ticks>>

ServiceNext ==
  \/ \E t \in Sweepers : ReadDue(t) \/ AddJob(t) \/ BeginSweep(t) \/ SweepOn(t) \/ AbortTick(t)
  \/ \E j \in JobIds : FinishJob(j) \/ RecoverJob(j) \/ Evict(j)
  \/ \E j \in JobIds, c \in Cycles : TakeJob(j, c)
  \/ \E m \in Manual, s \in Subs : AddManualJob(m, s)
  \/ \E c \in Cycles : Working(c) \/ CrashWorker(c) \/ RunInline(c)
  \/ Serving /\ UNCHANGED <<jobs, ticks>>
  \/ Settling /\ UNCHANGED <<jobs, ticks>>
  \/ Passing /\ UNCHANGED <<jobs, ticks>>

\* Awaited calls return, the interval timer fires, free workers take waiting jobs,
\* the stalled-job check runs and time goes on.  Clients and failures owe nothing.
Fairness ==
  /\ WF_serviceVars(Passing /\ UNCHANGED <<jobs, ticks>>)
  /\ \A t \in Sweepers :
       /\ WF_serviceVars(ReadDue(t))
       /\ WF_serviceVars(AddJob(t) \/ BeginSweep(t) \/ SweepOn(t))
  /\ \A j \in JobIds :
       /\ WF_serviceVars(\E c \in Cycles : TakeJob(j, c))
       /\ WF_serviceVars(FinishJob(j) \/ RecoverJob(j))
  /\ \A c \in Cycles :
       WF_serviceVars(CycleStep(c) /\ UNCHANGED <<sweeps, requests, jobs, ticks>>)

ServiceSafety == ServiceInit /\ [][ServiceNext]_serviceVars
ServiceSpec == ServiceSafety /\ Fairness

-----------------------------------------------------------------------------

\* Every variable has the type of the code's rows, jobs and locals.
ServiceTypeOK ==
  /\ TypeOK
  /\ jobs \in [JobIds -> Job]
  /\ \A j \in JobIds : jobs[j].state # "absent" => jobs[j].sub \in Subs
  /\ ticks \in [Sweepers -> [pc : {"idle", "add"}, todo : SUBSET Scheduled]]

\* An active job has a call of its own, which works on the job's subscription,
\* through crashes, recoveries, evictions and inline calls: the call that ends
\* settles the right job.
JobsOwnCalls ==
  \A j \in JobIds :
    /\ jobs[j].state = "active" <=> jobs[j].by # None
    /\ jobs[j].state = "active" =>
         /\ ~At(jobs[j].by, "idle") /\ Sub(jobs[j].by) = jobs[j].sub
         /\ \A k \in JobIds \ {j} : jobs[k].by # jobs[j].by

\* The job id keeps two calls from working on one period of a subscription at the
\* same time, however ticks overlap and jobs are tried again.
OneCallPerPeriod ==
  \A c, d \in Cycles :
    c # d /\ cycles[c].pc \in OpenPcs /\ cycles[d].pc \in OpenPcs
      => <<Sub(c), End(c)>> # <<Sub(d), End(d)>>

\* No period is charged twice on chain.
ChargedOnce == \A s \in Subs, e \in Dates : charges[s][e] <= 1

\* Failures are what a client can be charged twice for: once the network has settled
\* what is adrift, a period has taken money at most once more than things failed,
\* however often its job, or a job of another period, was recovered or tried again.
OverchargesNeedFaults ==
  \A s \in Subs, e \in Dates : charges[s][e] + adrift[s][e] <= 1 + faults

\* No period is charged before it ended.
BilledOnlyWhenDue == \A s \in Subs, e \in Dates : charges[s][e] > 0 => e <= now

\* What a failure can bring forward is one period: a job that is run again after its call
\* moved the subscription on bills the period that follows, which has not ended.  It does
\* not go on to the ones after, and neither does the job of that period.
EarlyChargesNeedFaults ==
  \A s \in Subs : Cardinality({e \in Dates : charges[s][e] > 0 /\ e > now}) <= faults

\* A payment recorded as SUCCESS stays recorded: no other call that read the row
\* earlier writes PROCESSING or FAILED over it.
PaidStaysBooked ==
  [][\A s \in Subs, e \in Dates :
       payments[s][e] = "SUCCESS" => payments'[s][e] = "SUCCESS"]_serviceVars

\* The payment says SUCCESS, or a call is about to write it.
Recorded(s, e) ==
  \/ payments[s][e] = "SUCCESS"
  \/ \E c \in Cycles : At(c, "recordPaid") /\ Sub(c) = s /\ End(c) = e

\* The periods on which the money and the books disagree, either way round.
Disputed == {p \in Subs \X Dates : PaidFor(p[1], p[2]) # Recorded(p[1], p[2])}

\* The books say which periods were paid for, but for one period each time something
\* fails: a FAILED over money that was collected, a SUCCESS without money, a transaction
\* that pays when no call waits for it any more.  Retries, recovered jobs and second
\* calls on the same payment add no disagreement of their own.
BooksNeedFaults == Cardinality(Disputed) <= faults

\* The job that is kept after it ended keeps its period from being attempted again.  It
\* does so only to a period that has had its attempt: the failure is counted, whichever
\* await failed and however often the job was tried.
EndedIsAccounted ==
  \A s \in Subs, e \in Dates :
    jobs[<<s, e>>].state \in {"completed", "failed"} /\ Due(s) /\ subs[s].end = e
      => subs[s].retry > 0

\* A late advance never takes a subscription back to an earlier period.
PeriodsInOrder == [][\A s \in Subs : subs'[s].start >= subs[s].start]_serviceVars

\* A period that has ended is attempted: a payment row for it appears, unless the
\* client pauses or cancels first.
DueIsAttempted ==
  \A s \in Subs, e \in Dates :
    Due(s) /\ subs[s].end = e ~> payments[s][e] # "NONE" \/ ~Due(s) \/ subs[s].end # e

\* Every job ends, through the crash or rejection of its call.
JobsEnd ==
  \A j \in JobIds :
    jobs[j].state \in {"waiting", "active", "stalled"}
      ~> jobs[j].state \in {"absent", "completed", "failed"}

\* No subscription stays past its grace period: it is paid for, cancelled, or given
\* a new grace by a further attempt that fails.
GraceEnds ==
  \A s \in Subs : Expired(s) ~> subs[s].status # "PAST_DUE" \/ subs[s].grace > now

\* The two writes of a failure, the payments and then the count, are both made in
\* the end: a call that dies or is rejected between them, or before the first, is run
\* again by the queue until the failure is counted or the period is paid.
FailureIsCounted ==
  \A s \in Subs, e \in Dates :
    payments[s][e] \in {"FAILED", "RETRYING"} /\ subs[s].end = e /\ subs[s].retry = 0
      ~> payments[s][e] = "SUCCESS" \/ subs[s].end # e \/ subs[s].retry > 0

\* "Scheduler picks it up on next tick": a payment that waits for its retry does not
\* wait for ever while its subscription is due.
RetryPickedUp ==
  \A s \in Subs, e \in Dates :
    payments[s][e] = "RETRYING" /\ Due(s) /\ subs[s].end = e
      ~> payments[s][e] # "RETRYING" \/ ~Due(s) \/ subs[s].end # e

\* "trial ends": a trial becomes an active subscription.
TrialEnds == \A s \in Subs : subs[s].status = "TRIALING" ~> subs[s].status # "TRIALING"

=============================================================================
