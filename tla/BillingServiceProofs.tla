------------------------ MODULE BillingServiceProofs ------------------------
(***************************************************************************)
(* The deployment is an implementation of the engine, so what is proved of *)
(* the engine holds of it; and jobs and calls stay matched one to one.     *)
(* The first needs the second: FinishJob ends the call of its job, which   *)
(* must be a call.  The inductive invariant is the conjunction of the      *)
(* types and of JobsOwnCalls.                                              *)
(***************************************************************************)
EXTENDS BillingService, BillingEngineProofs

ServiceInv == ServiceTypeOK /\ JobsOwnCalls

-----------------------------------------------------------------------------
(* Every step of the deployment is a step of the engine or a stutter.      *)

\* The call of an active job is one of the cycles.
LEMMA ActiveCall ==
  ASSUME ServiceInv, NEW j \in JobIds, jobs[j].state = "active"
  PROVE  jobs[j].by \in Cycles
<1>1. jobs[j] \in Job
  BY DEF ServiceInv, ServiceTypeOK
<1>. QED
  BY <1>1, SMT DEF Job, ServiceInv, JobsOwnCalls

\* A step of the deployment does to the engine's variables what the engine may do.
LEMMA StepOfEngine == ServiceInv /\ [ServiceNext]_serviceVars => [Next]_vars
<1> SUFFICES ASSUME ServiceInv, [ServiceNext]_serviceVars PROVE [Next]_vars
  OBVIOUS
<1> USE DEF Next, cycleVars
<1>1. ASSUME NEW t \in Sweepers, ReadDue(t) \/ AddJob(t) PROVE [Next]_vars
  BY <1>1 DEF ReadDue, AddJob
<1>2. ASSUME NEW t \in Sweepers, BeginSweep(t) \/ SweepOn(t) \/ AbortTick(t) PROVE [Next]_vars
  <2>1. Sweeping(t) \/ UNCHANGED vars
    BY <1>2 DEF BeginSweep, SweepOn, AbortTick, Sweeping, SweepStep
  <2>. QED
    BY <2>1
<1>3. ASSUME NEW j \in JobIds, RecoverJob(j) \/ Evict(j) PROVE [Next]_vars
  BY <1>3 DEF RecoverJob, Evict
<1>4. ASSUME NEW j \in JobIds, FinishJob(j) PROVE [Next]_vars
  <2>1. jobs[j].by \in Cycles
    BY <1>4, ActiveCall DEF FinishJob
  <2>2. Billing(jobs[j].by)
    BY <1>4 DEF FinishJob, Billing
  <2>. QED
    BY <2>1, <2>2
<1>5. ASSUME NEW j \in JobIds, NEW c \in Cycles, TakeJob(j, c) PROVE [Next]_vars
  <2>1. jobs[j].sub \in Subs
    BY <1>5 DEF TakeJob, ServiceInv, ServiceTypeOK
  <2>2. Billing(c)
    BY <1>5, <2>1 DEF TakeJob, Billing
  <2>. QED
    BY <2>2
<1>6. ASSUME NEW m \in Manual, NEW s \in Subs, AddManualJob(m, s) PROVE [Next]_vars
  BY <1>6 DEF AddManualJob
<1>7. ASSUME NEW c \in Cycles, Working(c) \/ CrashWorker(c) \/ RunInline(c) PROVE [Next]_vars
  <2>1. Billing(c)
    BY <1>7 DEF Working, CrashWorker, RunInline, Billing
  <2>. QED
    BY <2>1
<1>8. CASE UNCHANGED serviceVars
  BY <1>8 DEF serviceVars
<1>9. CASE Serving \/ Settling \/ Passing
  BY <1>9
<1>. QED
  BY <1>1, <1>2, <1>3, <1>4, <1>5, <1>6, <1>7, <1>8, <1>9 DEF ServiceNext

-----------------------------------------------------------------------------
(* Types.                                                                  *)

LEMMA InitServiceType == ServiceInit => ServiceInv
<1> SUFFICES ASSUME ServiceInit PROVE ServiceInv
  OBVIOUS
<1>1. TypeOK
  BY InitTypeOK DEF ServiceInit
<1>2. NoJob \in Job
  BY SMT DEF NoJob, Job
<1>. QED
  BY <1>1, <1>2, SMT DEF ServiceInit, ServiceInv, ServiceTypeOK, JobsOwnCalls, NoJob, IdleTick

\* The jobs a step writes are well formed.
LEMMA JobTypes ==
  ASSUME NEW job \in Job
  PROVE  /\ NoJob \in Job
         /\ \A s \in Subs : NewJob(s) \in Job
         /\ \A st \in {"completed", "failed", "stalled", "waiting"} :
              /\ [job EXCEPT !.state = st] \in Job
              /\ [job EXCEPT !.state = st, !.by = None] \in Job
              /\ [job EXCEPT !.state = st, !.by = None, !.tries = @ + 1] \in Job
              /\ [job EXCEPT !.state = st, !.stalls = 1] \in Job
         /\ \A c \in Cycles : [job EXCEPT !.state = "active", !.by = c] \in Job
<1>1. NoJob \in Job
  BY SMT DEF Job, NoJob
<1>2. ASSUME NEW s \in Subs PROVE NewJob(s) \in Job
  BY <1>1, Zenon DEF Job, NewJob
<1>3. ASSUME NEW st \in {"completed", "failed", "stalled", "waiting"}
      PROVE  /\ [job EXCEPT !.state = st] \in Job
             /\ [job EXCEPT !.state = st, !.by = None] \in Job
  BY Zenon DEF Job
<1>4. job.tries + 1 \in Nat /\ 1 \in Nat
  BY SMT DEF Job
<1>5. ASSUME NEW st \in {"completed", "failed", "stalled", "waiting"}
      PROVE  /\ [job EXCEPT !.state = st, !.by = None, !.tries = @ + 1] \in Job
             /\ [job EXCEPT !.state = st, !.stalls = 1] \in Job
  BY <1>4, Zenon DEF Job
<1>6. ASSUME NEW c \in Cycles PROVE [job EXCEPT !.state = "active", !.by = c] \in Job
  BY Zenon DEF Job
<1>. QED
  BY <1>1, <1>2, <1>3, <1>5, <1>6

-----------------------------------------------------------------------------
(* Jobs and calls.                                                         *)

\* A step of a call goes on to another place of the same call.
LEMMA CallGoesOn ==
  ASSUME CycleTypeOK, NEW c \in Cycles, CycleStep(c) \/ CycleFault(c)
  PROVE  \A d \in Cycles : cycles[d].pc # "idle" =>
           cycles'[d].pc # "idle" /\ cycles'[d].sub = cycles[d].sub
<1> SUFFICES \E pc : pc # "idle" /\ Goto(c, pc)
  BY Gone
<1>1. CASE FindPayment(c)
  BY <1>1 DEF FindPayment
<1>2. CASE CreatePayment(c)
  BY <1>2 DEF CreatePayment
<1>3. CASE Dispatch(c)
  BY <1>3 DEF Dispatch, Rail
<1>4. CASE Advance(c)
  BY <1>4 DEF Advance
<1>5. CASE Reject(c)
  BY <1>5 DEF Reject, Catch
<1>6. CASE \/ MarkMock(c) \/ MarkProcessing(c) \/ RecordPaid(c) \/ RecordFailure(c)
           \/ InvokePaid(c) \/ InvokeFailed(c) \/ InvokeError(c)
           \/ InvokeLate(c) \/ InvokeUnread(c)
  BY <1>6 DEF MarkMock, MarkProcessing, RecordPaid, RecordFailure, InvokePaid, InvokeFailed,
              InvokeError, InvokeLate, InvokeUnread
<1>7. CASE Emit(c) \/ EnterGrace(c) \/ MarkRetrying(c) \/ StoreRetry(c)
  BY <1>7 DEF Emit, EnterGrace, MarkRetrying, StoreRetry
<1>. QED
  BY <1>1, <1>2, <1>3, <1>4, <1>5, <1>6, <1>7 DEF CycleStep, CycleFault

\* While the calls of active jobs go on and the jobs stay as they are, they match.
LEMMA StillOwned ==
  ASSUME ServiceInv, UNCHANGED jobs,
         \A j \in JobIds : jobs[j].state = "active" =>
           LET d == jobs[j].by
           IN  cycles'[d].pc # "idle" /\ cycles'[d].sub = cycles[d].sub
  PROVE  JobsOwnCalls'
BY DEF ServiceInv, JobsOwnCalls, At, Sub

\* What a step leaves of the jobs and of the ticks is well formed.
JobsTyped ==
  /\ jobs \in [JobIds -> Job]
  /\ \A j \in JobIds : jobs[j].state # "absent" => jobs[j].sub \in Subs
  /\ ticks \in [Sweepers -> [pc : {"idle", "add"}, todo : SUBSET Scheduled]]

\* One job changes, to one without a call: the rest stays matched.
LEMMA JobReleased ==
  ASSUME ServiceInv, NEW j \in JobIds, NEW job \in Job,
         job.state # "active", job.by = None, job.state # "absent" => job.sub \in Subs,
         jobs' = [jobs EXCEPT ![j] = job], UNCHANGED ticks,
         \A k \in JobIds \ {j} : jobs[k].state = "active" =>
           LET d == jobs[k].by
           IN  cycles'[d].pc # "idle" /\ cycles'[d].sub = cycles[d].sub
  PROVE  JobsTyped' /\ JobsOwnCalls'
<1>1. jobs' \in [JobIds -> Job] /\ jobs'[j] = job /\ \A k \in JobIds \ {j} : jobs'[k] = jobs[k]
  BY DEF ServiceInv, ServiceTypeOK
<1>2. JobsTyped'
  BY <1>1 DEF JobsTyped, ServiceInv, ServiceTypeOK
<1>3. ASSUME NEW k \in JobIds
      PROVE  /\ jobs'[k].state = "active" <=> jobs'[k].by # None
             /\ jobs'[k].state = "active" =>
                  /\ cycles'[jobs'[k].by].pc # "idle" /\ cycles'[jobs'[k].by].sub = jobs'[k].sub
                  /\ \A i \in JobIds \ {k} : jobs'[i].by # jobs'[k].by
  <2>1. CASE k = j
    BY <1>1, <2>1
  <2>2. CASE k # j
    BY <1>1, <2>2 DEF ServiceInv, JobsOwnCalls, At, Sub
  <2>. QED
    BY <2>1, <2>2
<1>. QED
  BY <1>2, <1>3 DEF JobsOwnCalls, At, Sub

\* A tick reads well-formed ids, adds well-formed jobs, and touches no call.
LEMMA TickMatched ==
  ASSUME ServiceInv, NEW t \in Sweepers,
         ReadDue(t) \/ AddJob(t) \/ BeginSweep(t) \/ SweepOn(t) \/ AbortTick(t)
  PROVE  JobsTyped' /\ JobsOwnCalls'
<1>. /\ JobsTyped /\ ticks[t] \in [pc : {"idle", "add"}, todo : SUBSET Scheduled]
     /\ IdleTick \in [pc : {"idle", "add"}, todo : SUBSET Scheduled]
  BY DEF ServiceInv, ServiceTypeOK, JobsTyped, IdleTick
<1>k. ASSUME UNCHANGED <<cycles, jobs>> PROVE JobsOwnCalls'
  BY <1>k, StillOwned DEF ServiceInv, JobsOwnCalls, At, Sub
<1>1. CASE ReadDue(t)
  <2>1. UNCHANGED <<cycles, jobs>>
    BY <1>1 DEF ReadDue, vars
  <2>2. \A s \in Subs : subs[s].end \in Dates
    BY SMT DEF ServiceInv, ServiceTypeOK, TypeOK, TablesTypeOK, Subscription
  <2>3. {<<s, subs[s].end>> : s \in {x \in Subs : Due(x)}} \in SUBSET Scheduled
    BY <2>2 DEF Scheduled
  <2>4. JobsTyped'
    BY <1>1, <2>1, <2>3 DEF ReadDue, JobsTyped
  <2>. QED
    BY <1>k, <2>1, <2>4
<1>2. CASE AddJob(t)
  <2>1. PICK j \in ticks[t].todo :
          /\ ticks' = [ticks EXCEPT ![t].todo = @ \ {j}]
          /\ jobs' = IF jobs[j] = NoJob THEN [jobs EXCEPT ![j] = NewJob(j[1])] ELSE jobs
    BY <1>2 DEF AddJob
  <2>2. j \in JobIds /\ j[1] \in Subs /\ UNCHANGED cycles
    BY <1>2 DEF AddJob, vars, JobIds, Scheduled
  <2>3. ticks' \in [Sweepers -> [pc : {"idle", "add"}, todo : SUBSET Scheduled]]
    BY <2>1 DEF JobsTyped
  <2>4. CASE jobs[j] # NoJob
    BY <1>k, <2>1, <2>2, <2>3, <2>4 DEF JobsTyped
  <2>5. CASE jobs[j] = NoJob
    <3>1. jobs[j] \in Job /\ NewJob(j[1]) \in Job
      BY <2>2, JobTypes DEF JobsTyped
    <3>2. /\ NewJob(j[1]).state = "waiting" /\ NewJob(j[1]).by = None
          /\ NewJob(j[1]).sub = j[1]
      BY DEF NewJob, NoJob
    <3>3. jobs' = [jobs EXCEPT ![j] = NewJob(j[1])]
      BY <2>1, <2>5
    <3>4. /\ jobs' \in [JobIds -> Job] /\ jobs'[j] = NewJob(j[1])
          /\ \A k \in JobIds \ {j} : jobs'[k] = jobs[k]
      BY <2>2, <3>1, <3>3 DEF JobsTyped
    <3>5. JobsTyped'
      BY <2>2, <2>3, <3>2, <3>4 DEF JobsTyped
    <3>6. \A k \in JobIds : jobs[k].state = "active" => jobs'[k] = jobs[k]
      BY <2>5, <3>4 DEF NoJob
    <3>7. \A k \in JobIds : jobs'[k].by = jobs[k].by
      BY <2>5, <3>2, <3>4 DEF NoJob
    <3>8. \A k \in JobIds : jobs'[k].state = "active" => jobs[k].state = "active"
      BY <2>5, <3>2, <3>4 DEF NoJob
    <3>. QED
      BY <2>2, <3>5, <3>6, <3>7, <3>8 DEF ServiceInv, JobsOwnCalls, At, Sub
  <2>. QED
    BY <2>4, <2>5
<1>3. CASE BeginSweep(t) \/ SweepOn(t) \/ AbortTick(t)
  <2>1. UNCHANGED <<cycles, jobs>>
    BY <1>3 DEF BeginSweep, SweepOn, AbortTick, vars, cycleVars
  <2>2. ticks' = ticks \/ ticks' = [ticks EXCEPT ![t] = IdleTick]
    BY <1>3 DEF BeginSweep, SweepOn, AbortTick
  <2>3. JobsTyped'
    BY <2>1, <2>2 DEF JobsTyped
  <2>. QED
    BY <1>k, <2>1, <2>3
<1>. QED
  BY <1>1, <1>2, <1>3

\* A job is taken by a call that no other job has.
LEMMA TakeMatched ==
  ASSUME ServiceInv, NEW j \in JobIds, NEW c \in Cycles, TakeJob(j, c)
  PROVE  JobsTyped' /\ JobsOwnCalls'
<1>. DEFINE job == [jobs[j] EXCEPT !.state = "active", !.by = c]
<1>1. jobs[j] \in Job /\ jobs[j].sub \in Subs /\ JobsTyped
  BY DEF TakeJob, ServiceInv, ServiceTypeOK, JobsTyped
<1>a. job \in Job
  BY <1>1, JobTypes
<1>b. job.state = "active" /\ job.by = c /\ job.sub = jobs[j].sub
  BY <1>1, SMT DEF Job
<1>2. job \in Job /\ job.state = "active" /\ job.by = c /\ job.sub = jobs[j].sub
  BY <1>a, <1>b
<1>3. jobs' = [jobs EXCEPT ![j] = job] /\ UNCHANGED ticks
  BY <1>1 DEF TakeJob, JobsTyped
<1>4. /\ jobs' \in [JobIds -> Job] /\ jobs'[j] = job
      /\ \A k \in JobIds \ {j} : jobs'[k] = jobs[k]
  BY <1>1, <1>2, <1>3 DEF JobsTyped
<1>5. /\ cycles[c].pc = "idle" /\ cycles'[c].pc # "idle" /\ cycles'[c].sub = jobs[j].sub
      /\ \A d \in Cycles \ {c} : cycles'[d] = cycles[d]
  BY DEF TakeJob, Start, At, ServiceInv, ServiceTypeOK, TypeOK, CycleTypeOK
<1>6. \A k \in JobIds \ {j} : jobs[k].by # c
  BY <1>5, CycleAssumption DEF ServiceInv, JobsOwnCalls, At
<1>7. JobsTyped'
  BY <1>1, <1>2, <1>3, <1>4 DEF JobsTyped
<1>8. \A k \in JobIds \ {j} : jobs[k].state = "active" => jobs[k].by \in Cycles \ {c}
  BY <1>6, ActiveCall
<1>9. c # None
  BY CycleAssumption
<1>10. JobsOwnCalls'
  <2> SUFFICES ASSUME NEW k \in JobIds
        PROVE  /\ jobs'[k].state = "active" <=> jobs'[k].by # None
               /\ jobs'[k].state = "active" =>
                    /\ cycles'[jobs'[k].by].pc # "idle"
                    /\ cycles'[jobs'[k].by].sub = jobs'[k].sub
                    /\ \A i \in JobIds \ {k} : jobs'[i].by # jobs'[k].by
    BY DEF JobsOwnCalls, At, Sub
  <2>1. CASE k = j
    BY <2>1, <1>2, <1>4, <1>5, <1>6, <1>9
  <2>2. CASE k # j
    <3>1. jobs'[k] = jobs[k]
      BY <2>2, <1>4
    <3>2. ASSUME NEW i \in JobIds \ {k}, jobs[k].state = "active" PROVE jobs'[i].by # jobs[k].by
      <4>1. CASE i = j
        BY <4>1, <3>2, <2>2, <1>2, <1>4, <1>8
      <4>2. CASE i # j
        <5>1. jobs'[i] = jobs[i]
          BY <4>2, <1>4
        <5>. QED
          BY <5>1, <3>2 DEF ServiceInv, JobsOwnCalls
      <4>. QED
        BY <4>1, <4>2
    <3>3. jobs[k].state = "active" =>
            cycles'[jobs[k].by].pc # "idle" /\ cycles'[jobs[k].by].sub = jobs[k].sub
      BY <2>2, <1>5, <1>8 DEF ServiceInv, JobsOwnCalls, At, Sub
    <3>. QED
      BY <3>1, <3>2, <3>3 DEF ServiceInv, JobsOwnCalls
  <2>. QED
    BY <2>1, <2>2
<1>. QED
  BY <1>7, <1>10

\* A call that ends leaves its job, and only its job, without a call.
LEMMA FinishMatched ==
  ASSUME ServiceInv, NEW j \in JobIds, FinishJob(j)
  PROVE  JobsTyped' /\ JobsOwnCalls'
<1>. DEFINE c == jobs[j].by
<1>1. jobs[j] \in Job /\ jobs[j].sub \in Subs /\ jobs \in [JobIds -> Job]
  BY DEF FinishJob, ServiceInv, ServiceTypeOK
<1>2. PICK job :
        /\ jobs' = [jobs EXCEPT ![j] = job]
        /\ job \in {NoJob, [jobs[j] EXCEPT !.state = "completed", !.by = None],
                    [jobs[j] EXCEPT !.state = "waiting", !.by = None, !.tries = @ + 1],
                    [jobs[j] EXCEPT !.state = "failed", !.by = None, !.tries = @ + 1]}
  BY <1>1, Zenon DEF FinishJob
<1>3. job \in Job
  BY <1>1, <1>2, JobTypes
<1>4. job.state # "active" /\ job.by = None /\ (job.state # "absent" => job.sub \in Subs)
  <2>1. CASE job = NoJob
    BY <2>1 DEF NoJob
  <2>2. CASE job = [jobs[j] EXCEPT !.state = "completed", !.by = None]
    BY <1>1, <2>2, SMT DEF Job
  <2>3. CASE job = [jobs[j] EXCEPT !.state = "waiting", !.by = None, !.tries = @ + 1]
    BY <1>1, <2>3, SMT DEF Job
  <2>4. CASE job = [jobs[j] EXCEPT !.state = "failed", !.by = None, !.tries = @ + 1]
    BY <1>1, <2>4, SMT DEF Job
  <2>. QED
    BY <1>2, <2>1, <2>2, <2>3, <2>4
<1>5. \A d \in Cycles \ {c} : cycles'[d] = cycles[d]
  BY DEF FinishJob, Finish, ServiceInv, ServiceTypeOK, TypeOK, CycleTypeOK
<1>6. \A k \in JobIds \ {j} : jobs[k].state = "active" => jobs[k].by \in Cycles \ {c}
  BY ActiveCall DEF FinishJob, ServiceInv, JobsOwnCalls
<1>7. ASSUME NEW k \in JobIds \ {j}, jobs[k].state = "active"
      PROVE  LET d == jobs[k].by
             IN  cycles'[d].pc # "idle" /\ cycles'[d].sub = cycles[d].sub
  BY <1>5, <1>6, <1>7 DEF ServiceInv, JobsOwnCalls, At
<1>. QED
  BY <1>2, <1>3, <1>4, <1>7, JobReleased DEF FinishJob

\* Jobs without a call may be put back, given up or forgotten.
LEMMA JobMatched ==
  ASSUME ServiceInv, NEW j \in JobIds, RecoverJob(j) \/ Evict(j)
  PROVE  JobsTyped' /\ JobsOwnCalls'
<1>1. /\ jobs[j] \in Job /\ jobs[j].state \notin {"active", "absent"}
      /\ jobs[j].sub \in Subs /\ jobs[j].by = None
  BY DEF RecoverJob, Evict, ServiceInv, ServiceTypeOK, JobsOwnCalls
<1>2. PICK job :
        /\ jobs' = [jobs EXCEPT ![j] = job]
        /\ job \in {NoJob, [jobs[j] EXCEPT !.state = "waiting", !.stalls = 1],
                    [jobs[j] EXCEPT !.state = "failed"]}
  <2>1. CASE RecoverJob(j)
    BY <2>1, Zenon DEF RecoverJob, ServiceInv, ServiceTypeOK
  <2>2. CASE Evict(j)
    BY <2>2 DEF Evict
  <2>. QED
    BY <2>1, <2>2
<1>3. job \in Job
  BY <1>1, <1>2, JobTypes
<1>4. job.state # "active" /\ job.by = None /\ (job.state # "absent" => job.sub \in Subs)
  <2>1. CASE job = NoJob
    BY <2>1 DEF NoJob
  <2>2. CASE job = [jobs[j] EXCEPT !.state = "waiting", !.stalls = 1]
    BY <1>1, <2>2, SMT DEF Job
  <2>3. CASE job = [jobs[j] EXCEPT !.state = "failed"]
    BY <1>1, <2>3, SMT DEF Job
  <2>. QED
    BY <1>2, <2>1, <2>2, <2>3
<1>5. UNCHANGED <<cycles, ticks>>
  BY DEF RecoverJob, Evict, vars
<1>. QED
  BY <1>2, <1>3, <1>4, <1>5, JobReleased DEF ServiceInv, JobsOwnCalls, At

LEMMA ManualMatched ==
  ASSUME ServiceInv, NEW m \in Manual, NEW s \in Subs, AddManualJob(m, s)
  PROVE  JobsTyped' /\ JobsOwnCalls'
<1>1. m \in JobIds /\ NoJob \in Job
  BY JobTypes DEF JobIds, ServiceInv, ServiceTypeOK, AddManualJob
<1>2. NewJob(s) \in Job
  BY <1>1, JobTypes
<1>3. NewJob(s).state = "waiting" /\ NewJob(s).by = None /\ NewJob(s).sub = s
  BY DEF NewJob, NoJob
<1>4. jobs' = [jobs EXCEPT ![m] = NewJob(s)] /\ UNCHANGED <<cycles, ticks>>
  BY DEF AddManualJob, vars
<1>. QED
  BY <1>1, <1>2, <1>3, <1>4, JobReleased DEF ServiceInv, JobsOwnCalls, At

\* The job of a worker that died loses its call; every other keeps its own.
LEMMA CrashMatched ==
  ASSUME ServiceInv, NEW c \in Cycles, CrashWorker(c)
  PROVE  JobsTyped' /\ JobsOwnCalls'
<1>1. /\ jobs \in [JobIds -> Job] /\ c # None
      /\ \A d \in Cycles \ {c} : cycles'[d] = cycles[d]
  BY CycleAssumption
  DEF CrashWorker, Crash, ServiceInv, ServiceTypeOK, TypeOK, CycleTypeOK
<1>2. ASSUME NEW j \in JobIds, jobs[j].by = c
      PROVE  /\ jobs'[j] \in Job /\ jobs'[j].state = "stalled" /\ jobs'[j].by = None
             /\ jobs'[j].sub \in Subs
  <2>1. jobs[j] \in Job /\ jobs'[j] = [jobs[j] EXCEPT !.state = "stalled", !.by = None]
    BY <1>1, <1>2 DEF CrashWorker
  <2>2. jobs[j].sub \in Subs
    BY <1>1, <1>2 DEF ServiceInv, ServiceTypeOK, JobsOwnCalls
  <2>3. jobs'[j] \in Job
    BY <2>1, JobTypes
  <2>4. jobs'[j].state = "stalled" /\ jobs'[j].by = None /\ jobs'[j].sub = jobs[j].sub
    BY <2>1, SMT DEF Job
  <2>. QED
    BY <2>2, <2>3, <2>4
<1>3. ASSUME NEW j \in JobIds, jobs[j].by # c PROVE jobs'[j] = jobs[j]
  BY <1>3 DEF CrashWorker
<1>4. jobs' = [j \in JobIds |-> jobs'[j]] /\ UNCHANGED ticks
  BY DEF CrashWorker
<1>5. JobsTyped'
  <2>1. \A j \in JobIds : jobs'[j] \in Job /\ (jobs'[j].state # "absent" => jobs'[j].sub \in Subs)
    BY <1>1, <1>2, <1>3 DEF ServiceInv, ServiceTypeOK
  <2>. QED
    BY <1>4, <2>1 DEF JobsTyped, ServiceInv, ServiceTypeOK
<1>6. JobsOwnCalls'
  <2> SUFFICES ASSUME NEW k \in JobIds
        PROVE  /\ jobs'[k].state = "active" <=> jobs'[k].by # None
               /\ jobs'[k].state = "active" =>
                    /\ cycles'[jobs'[k].by].pc # "idle"
                    /\ cycles'[jobs'[k].by].sub = jobs'[k].sub
                    /\ \A i \in JobIds \ {k} : jobs'[i].by # jobs'[k].by
    BY DEF JobsOwnCalls, At, Sub
  <2>1. CASE jobs[k].by = c
    BY <2>1, <1>2
  <2>2. CASE jobs[k].by # c
    <3>1. jobs'[k] = jobs[k]
      BY <2>2, <1>3
    <3>2. jobs[k].state = "active" => jobs[k].by \in Cycles \ {c}
      BY <2>2, ActiveCall
    <3>3. ASSUME NEW i \in JobIds \ {k}, jobs[k].state = "active" PROVE jobs'[i].by # jobs[k].by
      <4>1. jobs'[i].by \in {jobs[i].by, None}
        BY <1>2, <1>3
      <4>. QED
        BY <4>1, <3>3 DEF ServiceInv, JobsOwnCalls
    <3>. QED
      BY <1>1, <3>1, <3>2, <3>3 DEF ServiceInv, JobsOwnCalls, At, Sub
  <2>. QED
    BY <2>1, <2>2
<1>. QED
  BY <1>5, <1>6

\* Calls outside the queue begin and end without a job.
LEMMA CallMatched ==
  ASSUME ServiceInv, NEW c \in Cycles, Working(c) \/ RunInline(c)
  PROVE  JobsTyped' /\ JobsOwnCalls'
<1>. CycleTypeOK /\ JobsTyped
  BY DEF ServiceInv, ServiceTypeOK, TypeOK, JobsTyped
<1>1. UNCHANGED <<jobs, ticks>>
  BY DEF Working, RunInline
<1>2. JobsTyped'
  BY <1>1 DEF JobsTyped
<1>3. \A j \in JobIds : jobs[j].state = "active" =>
        jobs[j].by \in Cycles /\ cycles[jobs[j].by].pc # "idle"
  BY ActiveCall DEF ServiceInv, JobsOwnCalls, At
<1>4. \A j \in JobIds : jobs[j].state = "active" =>
        LET d == jobs[j].by
        IN  cycles'[d].pc # "idle" /\ cycles'[d].sub = cycles[d].sub
  <2>1. CASE Working(c)
    BY <1>3, <2>1, CallGoesOn DEF Working
  <2>2. ASSUME NEW s \in Subs, Start(c, s)
        PROVE  \A d \in Cycles : cycles[d].pc # "idle" => cycles'[d] = cycles[d]
    BY <2>2 DEF Start, At, CycleTypeOK
  <2>3. ASSUME \A j \in JobIds : jobs[j].by # c, Finish(c)
        PROVE  \A d \in Cycles \ {c} : cycles'[d] = cycles[d]
    BY <2>3 DEF Finish, CycleTypeOK
  <2>. QED
    BY <1>3, <2>1, <2>2, <2>3 DEF RunInline
<1>5. JobsOwnCalls'
  BY <1>1, <1>4, StillOwned
<1>. QED
  BY <1>2, <1>5

\* The inductive step: types from the engine, jobs and ticks from the lemmas above.
LEMMA NextServiceInv == ServiceInv /\ [ServiceNext]_serviceVars => ServiceInv'
<1> SUFFICES ASSUME ServiceInv, [ServiceNext]_serviceVars PROVE ServiceInv'
  OBVIOUS
<1>1. TypeOK'
  BY StepOfEngine, NextTypeOK DEF ServiceInv, ServiceTypeOK
<1>2. ASSUME UNCHANGED <<jobs, ticks, cycles>> PROVE JobsTyped' /\ JobsOwnCalls'
  BY <1>2, StillOwned DEF JobsTyped, ServiceInv, ServiceTypeOK, JobsOwnCalls, At
<1>3. ASSUME \/ Serving /\ UNCHANGED <<jobs, ticks>>
             \/ Settling /\ UNCHANGED <<jobs, ticks>>
             \/ Passing /\ UNCHANGED <<jobs, ticks>>
             \/ UNCHANGED serviceVars
      PROVE  JobsTyped' /\ JobsOwnCalls'
  BY <1>2, <1>3 DEF Serving, Settling, ChainStep, Land, Lapse, Passing, cycleVars, serviceVars, vars
<1>4. JobsTyped' /\ JobsOwnCalls'
  BY <1>3, TickMatched, TakeMatched, FinishMatched, JobMatched, ManualMatched, CrashMatched,
     CallMatched DEF ServiceNext
<1>. QED
  BY <1>1, <1>4 DEF ServiceInv, ServiceTypeOK, JobsTyped

-----------------------------------------------------------------------------

\* Every variable of the deployment, its queue and its ticks included, is well typed.
THEOREM ServiceTypeCorrect == ServiceSafety => []ServiceTypeOK
<1>1. ServiceInv => ServiceTypeOK
  BY DEF ServiceInv
<1>. QED
  BY InitServiceType, NextServiceInv, <1>1, PTL DEF ServiceSafety

\* Jobs and calls of processBillingCycle stay matched one to one, through retries,
\* crashes, recoveries, evictions, manual jobs and inline billing.
THEOREM JobsMatchCalls == ServiceSafety => []JobsOwnCalls
<1>1. ServiceInv => JobsOwnCalls
  BY DEF ServiceInv
<1>. QED
  BY InitServiceType, NextServiceInv, <1>1, PTL DEF ServiceSafety

\* The deployment implements the engine: queueing, deduplication, retries and
\* recovery add no behaviour to billing that the engine does not have.
THEOREM ServiceImplementsEngine == ServiceSafety => Spec
<1>1. ServiceInit => Init
  BY DEF ServiceInit
<1>. QED
  BY InitServiceType, NextServiceInv, StepOfEngine, <1>1, PTL DEF ServiceSafety, Spec

\* So the deployment inherits what is proved of the engine: a charge leaves a row, a
\* closed subscription stays closed, and no period is entered unpaid.
THEOREM ServiceKeepsPromises ==
  ServiceSafety => /\ []ChargeLeavesTrace
                   /\ ClosedStaysClosed
                   /\ ("unread" \notin FaultKinds => ImplementsPaidPeriods)
BY ServiceImplementsEngine, ChargesTraced, CancelledForGood, EngineImplementsPaidPeriods
=============================================================================
