------------------------- MODULE BillingQueueProofs -------------------------
(***************************************************************************)
(* What the job ids are worth.  They are the only thing between two calls  *)
(* on one period, and they are enough when every call comes from the       *)
(* scheduler (QueueOnly): then a period has one call at a time, is charged *)
(* at most once and never before it ended, and periods only move forward.  *)
(* The invariant follows a period from the tick that finds it due, over    *)
(* the job and its call, to the advance; it says what each of them still   *)
(* knows to be true of the row when the next one acts on it.               *)
(***************************************************************************)
EXTENDS BillingServiceProofs, FiniteSetTheorems

\* Every call comes from the scheduler, a job keeps its id when it has ended, and nobody
\* opens a fresh period but the one who subscribes.
SchedulerOnly ==
  /\ Manual = {} /\ "inline" \notin ManualOps
  /\ ~Evicts
  /\ "resume" \notin Ops

\* Each conjunct is needed: without it one of the properties has a counterexample.  Any
\* number of transactions may be answered too late or misread, but only one call may be
\* rejected: a call rejected after its charge and again in the failure path throws, and
\* its job charges again.
QueueOnly ==
  /\ SchedulerOnly
  /\ "crash" \notin FaultKinds
  /\ "reject" \in FaultKinds => MaxFaults <= 1

Sent(s, e) == charges[s][e] + adrift[s][e]

BeforeSend ==
  {"find", "create", "dispatch", "mock", "processing", "invoke", "advanceOnly", "threw"}
BeforeAdvance == BeforeSend \cup {"recordPaid", "recordFailed", "recordError", "advance"}
Failing == {"failed", "storeRetry", "emitFailed"}

\* A call works for the job that is named after its subscription and period.
CallsOwned ==
  \A c \in Cycles : ~At(c, "idle") =>
    /\ Sub(c) \in Subs
    /\ jobs[<<Sub(c), End(c)>>].state = "active"
    /\ jobs[<<Sub(c), End(c)>>].by = c

\* Until it advances, a call's period is the current one; until it invokes, nothing was
\* sent for it.  A call that fails for a reason of the contract has not got further.
CallsCurrent ==
  \A c \in Cycles :
    /\ cycles[c].pc \in BeforeAdvance => subs[Sub(c)].end = End(c)
    /\ cycles[c].pc \in BeforeSend => Sent(Sub(c), End(c)) = 0
    /\ faults = 0 /\ cycles[c].pc \in Failing => subs[Sub(c)].end = End(c)
    /\ faults = 0 /\ cycles[c].pc \in Failing \cup {"recordFailed", "recordError"}
         => Sent(Sub(c), End(c)) = 0

\* A job is there for a period that has ended; while it waits the period is the current
\* one, and before its call nothing was sent.
JobsCurrent ==
  \A s \in Subs, e \in Dates :
    LET job == jobs[<<s, e>>] IN
    /\ job.state # "stalled"
    /\ job.state # "absent" => job.sub = s /\ Exists(s) /\ e <= now
    /\ job.state = "waiting" => subs[s].end = e
    /\ job.state \in {"absent", "waiting"} => Sent(s, e) = 0

\* What a tick read due is the current period, or has its job already.
TodoCurrent ==
  \A t \in Sweepers, s \in Subs, e \in Dates :
    <<s, e>> \in ticks[t].todo =>
      /\ Exists(s) /\ e <= now
      /\ subs[s].end = e \/ (subs[s].end > e /\ jobs[<<s, e>>].state # "absent")

SentOnce == \A s \in Subs, e \in Dates : Sent(s, e) <= 1

PeriodsOpen == \A s \in Subs : Exists(s) => subs[s].start < subs[s].end

QueueInv ==
  CallsOwned /\ CallsCurrent /\ JobsCurrent /\ TodoCurrent /\ SentOnce /\ PeriodsOpen

-----------------------------------------------------------------------------
(* Steps that touch no job: what has to stay for the invariant to stay.    *)

LEMMA QueueTypes ==
  ASSUME ServiceInv
  PROVE  /\ \A c \in Cycles : End(c) \in Dates
         /\ \A s \in Subs, e \in Dates : Sent(s, e) \in Nat
         /\ \A s \in Subs : subs[s].end \in Int /\ subs[s].start \in Int
         /\ now \in Nat /\ faults \in Nat /\ Dates \subseteq Int
<1>. TablesTypeOK /\ CycleTypeOK
  BY DEF ServiceInv, ServiceTypeOK, TypeOK
<1>1. \A c \in Cycles : End(c) \in Dates
  BY SMT DEF CycleTypeOK, Cycle, End
<1>2. \A s \in Subs, e \in Dates : Sent(s, e) \in Nat
  BY SMT DEF CycleTypeOK, Sent
<1>3. \A s \in Subs : subs[s].end \in Int /\ subs[s].start \in Int
  BY SMT DEF TablesTypeOK, Subscription, Dates, NoTime
<1>4. now \in Nat /\ faults \in Nat /\ Dates \subseteq Int
  BY SMT DEF TablesTypeOK, Dates
<1>. QED
  BY <1>1, <1>2, <1>3, <1>4

\* Rows keep their periods, calls end or stay, nothing is sent, time goes on.
LEMMA Kept ==
  ASSUME ServiceInv, QueueInv, UNCHANGED jobs,
         \A t \in Sweepers : ticks'[t].todo \subseteq ticks[t].todo,
         \A c \in Cycles : cycles'[c] = cycles[c] \/ cycles'[c].pc = "idle",
         \A s \in Subs : Exists(s) =>
           Exists(s)' /\ subs'[s].start = subs[s].start /\ subs'[s].end = subs[s].end,
         \A s \in Subs : ~Exists(s) /\ Exists(s)' => subs'[s].start < subs'[s].end,
         \A s \in Subs, e \in Dates : Sent(s, e)' \in Nat /\ Sent(s, e)' <= Sent(s, e),
         now' \in Nat, now' >= now, faults' \in Nat, faults' >= faults
  PROVE  QueueInv'
<1>t. /\ \A c \in Cycles : End(c) \in Dates
      /\ \A s \in Subs, e \in Dates : Sent(s, e) \in Nat
      /\ now \in Nat /\ faults \in Nat /\ Dates \subseteq Int
  BY QueueTypes
<1>1. CallsOwned'
  BY DEF QueueInv, CallsOwned, At, Sub, End
<1>2. CallsCurrent'
  <2> SUFFICES ASSUME NEW c \in Cycles, cycles'[c].pc # "idle"
               PROVE  /\ cycles[c].pc \in BeforeAdvance => subs'[Sub(c)].end = End(c)
                      /\ cycles[c].pc \in BeforeSend => Sent(Sub(c), End(c))' = 0
                      /\ faults' = 0 /\ cycles[c].pc \in Failing => subs'[Sub(c)].end = End(c)
                      /\ faults' = 0 /\ cycles[c].pc \in Failing \cup {"recordFailed", "recordError"}
                           => Sent(Sub(c), End(c))' = 0
                      /\ cycles'[c] = cycles[c]
    BY DEF CallsCurrent, BeforeSend, BeforeAdvance, Failing, Sub, End, Sent
  <2>1. cycles'[c] = cycles[c] /\ Sub(c) \in Subs /\ End(c) \in Dates
        /\ jobs[<<Sub(c), End(c)>>].state = "active"
    BY <1>t DEF QueueInv, CallsOwned, At
  <2>2. Exists(Sub(c))
    BY <2>1 DEF QueueInv, JobsCurrent
  <2>3. faults' = 0 => faults = 0
    BY <1>t, SMT
  <2>4. Sent(Sub(c), End(c)) = 0 => Sent(Sub(c), End(c))' = 0
    <3>1. Sent(Sub(c), End(c))' = charges'[Sub(c)][End(c)] + adrift'[Sub(c)][End(c)]
      BY <2>1 DEF Sent, Sub, End
    <3>. QED
      BY <1>t, <2>1, <3>1, SMT DEF Sent
  <2>. QED
    BY <2>1, <2>2, <2>3, <2>4 DEF QueueInv, CallsCurrent
<1>3. JobsCurrent'
  <2> SUFFICES ASSUME NEW s \in Subs, NEW e \in Dates
        PROVE  LET job == jobs[<<s, e>>] IN
               /\ job.state # "stalled"
               /\ job.state # "absent" => job.sub = s /\ Exists(s)' /\ e <= now'
               /\ job.state = "waiting" => subs'[s].end = e
               /\ job.state \in {"absent", "waiting"} => Sent(s, e)' = 0
    BY DEF JobsCurrent
  <2>1. LET job == jobs[<<s, e>>] IN
        /\ job.state # "stalled"
        /\ job.state # "absent" => job.sub = s /\ Exists(s) /\ e <= now
        /\ job.state = "waiting" => subs[s].end = e
        /\ job.state \in {"absent", "waiting"} => Sent(s, e) = 0
    BY DEF QueueInv, JobsCurrent
  <2>2. e <= now => e <= now'
    BY <1>t, SMT
  <2>3. Sent(s, e) = 0 => Sent(s, e)' = 0
    BY <1>t, SMT
  <2>. QED
    BY <2>1, <2>2, <2>3
<1>4. TodoCurrent'
  <2> SUFFICES ASSUME NEW t \in Sweepers, NEW s \in Subs, NEW e \in Dates,
                      <<s, e>> \in ticks[t].todo
        PROVE  /\ Exists(s)' /\ e <= now'
               /\ subs'[s].end = e \/ (subs'[s].end > e /\ jobs[<<s, e>>].state # "absent")
    BY DEF TodoCurrent
  <2>1. /\ Exists(s) /\ e <= now
        /\ subs[s].end = e \/ (subs[s].end > e /\ jobs[<<s, e>>].state # "absent")
    BY DEF QueueInv, TodoCurrent
  <2>2. Exists(s)' /\ subs'[s].end = subs[s].end
    BY <2>1
  <2>3. e <= now'
    BY <1>t, <2>1, SMT
  <2>. QED
    BY <2>1, <2>2, <2>3
<1>5. SentOnce'
  <2> SUFFICES ASSUME NEW s \in Subs, NEW e \in Dates PROVE Sent(s, e)' <= 1
    BY DEF SentOnce
  <2>1. Sent(s, e) <= 1
    BY DEF QueueInv, SentOnce
  <2>. QED
    BY <1>t, <2>1, SMT
<1>6. PeriodsOpen'
  BY DEF QueueInv, PeriodsOpen
<1>. QED
  BY <1>1, <1>2, <1>3, <1>4, <1>5, <1>6 DEF QueueInv

\* A call takes a step.  It may send, or move the period it works on; what it knows of
\* the row must hold after the step.  Nobody else relies on the period it moves: that
\* would be a call or a waiting job for the same period.
LEMMA CallMoves ==
  ASSUME ServiceInv, QueueInv, UNCHANGED <<jobs, ticks, now>>,
         NEW c \in Cycles, cycles[c].pc # "idle", NEW pc, pc # "idle", Goto(c, pc),
         NEW s, s = Sub(c), NEW e, e = End(c),
         \A x \in Subs : Exists(x) => Exists(x)',
         \A x \in Subs \ {s} : subs'[x] = subs[x],
         subs'[s].start \in Int, subs'[s].end \in Int, subs'[s].start < subs'[s].end,
         \/ subs'[s].end = subs[s].end
         \/ subs[s].end = e /\ subs'[s].end > e,
         \A x \in Subs, d \in Dates : x # s \/ d # e => Sent(x, d)' = Sent(x, d),
         Sent(s, e)' \in Nat, Sent(s, e)' <= 1,
         faults' \in Nat, faults' >= faults,
         pc \in BeforeAdvance => subs'[s].end = e,
         pc \in BeforeSend => Sent(s, e)' = 0,
         faults' = 0 /\ pc \in Failing => subs'[s].end = e,
         faults' = 0 /\ pc \in Failing \cup {"recordFailed", "recordError"} => Sent(s, e)' = 0
  PROVE  QueueInv'
<1>t. /\ \A d \in Cycles : End(d) \in Dates
      /\ \A x \in Subs, d \in Dates : Sent(x, d) \in Nat
      /\ \A x \in Subs : subs[x].end \in Int
      /\ now \in Nat /\ faults \in Nat /\ Dates \subseteq Int
  BY QueueTypes
<1>g. /\ cycles'[c].pc = pc
      /\ \A d \in Cycles : cycles'[d].sub = cycles[d].sub /\ cycles'[d].end = cycles[d].end
      /\ \A d \in Cycles \ {c} : cycles'[d] = cycles[d]
  BY Gone DEF ServiceInv, ServiceTypeOK, TypeOK
<1>o. /\ s \in Subs /\ e \in Dates
      /\ jobs[<<s, e>>].state = "active" /\ jobs[<<s, e>>].by = c /\ Exists(s)
  BY <1>t DEF QueueInv, CallsOwned, JobsCurrent, At
<1>1. CallsOwned'
  BY <1>g DEF QueueInv, CallsOwned, At, Sub, End
<1>2. CallsCurrent'
  <2>1. ASSUME NEW d \in Cycles \ {c}, cycles[d].pc # "idle"
        PROVE  /\ cycles[d].pc \in BeforeAdvance => subs'[Sub(d)].end = End(d)
               /\ cycles[d].pc \in BeforeSend => Sent(Sub(d), End(d))' = 0
               /\ faults' = 0 /\ cycles[d].pc \in Failing => subs'[Sub(d)].end = End(d)
               /\ faults' = 0 /\ cycles[d].pc \in Failing \cup {"recordFailed", "recordError"}
                    => Sent(Sub(d), End(d))' = 0
    <3>1. Sub(d) \in Subs /\ End(d) \in Dates /\ jobs[<<Sub(d), End(d)>>].by = d
      BY <1>t, <2>1 DEF QueueInv, CallsOwned, At
    <3>2. Sub(d) # s \/ End(d) # e
      BY <1>o, <3>1
    <3>3. Sent(Sub(d), End(d))' = Sent(Sub(d), End(d))
      <4>1. charges'[Sub(d)][End(d)] + adrift'[Sub(d)][End(d)] = Sent(Sub(d), End(d))
        BY <3>1, <3>2 DEF Sent
      <4>. QED
        BY <1>g, <4>1 DEF Sent, Sub, End
    <3>4. subs[Sub(d)].end = End(d) => subs'[Sub(d)].end = End(d)
      BY <3>1, <3>2
    <3>5. faults' = 0 => faults = 0
      BY <1>t, SMT
    <3>. QED
      BY <3>3, <3>4, <3>5 DEF QueueInv, CallsCurrent
  <2> SUFFICES ASSUME NEW d \in Cycles, cycles'[d].pc # "idle"
        PROVE  /\ cycles'[d].pc \in BeforeAdvance => subs'[Sub(d)].end = End(d)
               /\ cycles'[d].pc \in BeforeSend =>
                    charges'[Sub(d)][End(d)] + adrift'[Sub(d)][End(d)] = 0
               /\ faults' = 0 /\ cycles'[d].pc \in Failing => subs'[Sub(d)].end = End(d)
               /\ faults' = 0 /\ cycles'[d].pc \in Failing \cup {"recordFailed", "recordError"}
                    => charges'[Sub(d)][End(d)] + adrift'[Sub(d)][End(d)] = 0
    BY <1>g DEF CallsCurrent, BeforeSend, BeforeAdvance, Failing, Sub, End, Sent
  <2>2. CASE d = c
    BY <1>g, <2>2 DEF Sent
  <2>3. CASE d # c
    BY <1>g, <2>1, <2>3 DEF Sent, Sub, End
  <2>. QED
    BY <2>2, <2>3
<1>3. JobsCurrent'
  <2> SUFFICES ASSUME NEW x \in Subs, NEW d \in Dates
        PROVE  LET job == jobs[<<x, d>>] IN
               /\ job.state # "stalled"
               /\ job.state # "absent" => job.sub = x /\ Exists(x)' /\ d <= now
               /\ job.state = "waiting" => subs'[x].end = d
               /\ job.state \in {"absent", "waiting"} => Sent(x, d)' = 0
    BY DEF JobsCurrent
  <2>1. /\ jobs[<<x, d>>].state # "stalled"
        /\ jobs[<<x, d>>].state # "absent" => jobs[<<x, d>>].sub = x /\ Exists(x)' /\ d <= now
    BY DEF QueueInv, JobsCurrent
  <2>2. jobs[<<x, d>>].state \in {"absent", "waiting"} => x # s \/ d # e
    BY <1>o
  <2>3. jobs[<<x, d>>].state = "waiting" => subs'[x].end = d
    BY <1>o, <2>2 DEF QueueInv, JobsCurrent
  <2>4. jobs[<<x, d>>].state \in {"absent", "waiting"} => Sent(x, d)' = 0
    BY <2>2 DEF QueueInv, JobsCurrent
  <2>. QED
    BY <2>1, <2>3, <2>4
<1>4. TodoCurrent'
  <2> SUFFICES ASSUME NEW t \in Sweepers, NEW x \in Subs, NEW d \in Dates,
                      <<x, d>> \in ticks[t].todo
        PROVE  /\ Exists(x)' /\ d <= now
               /\ subs'[x].end = d \/ (subs'[x].end > d /\ jobs[<<x, d>>].state # "absent")
    BY DEF TodoCurrent
  <2>1. /\ Exists(x)' /\ d <= now
        /\ subs[x].end = d \/ (subs[x].end > d /\ jobs[<<x, d>>].state # "absent")
    BY DEF QueueInv, TodoCurrent
  <2>2. CASE subs'[x].end = subs[x].end
    BY <2>1, <2>2
  <2>3. CASE subs'[x].end # subs[x].end
    <3>1. x = s /\ subs[x].end = e /\ subs'[x].end > e
      BY <2>3
    <3>2. subs'[x].end > d /\ jobs[<<x, d>>].state # "absent"
      BY <1>t, <1>o, <2>1, <3>1, SMT
    <3>. QED
      BY <2>1, <3>2
  <2>. QED
    BY <2>2, <2>3
<1>5. SentOnce'
  <2> SUFFICES ASSUME NEW x \in Subs, NEW d \in Dates PROVE Sent(x, d)' <= 1
    BY DEF SentOnce
  <2>1. CASE x = s /\ d = e
    BY <2>1 DEF Sent
  <2>2. CASE x # s \/ d # e
    BY <2>2 DEF QueueInv, SentOnce
  <2>. QED
    BY <2>1, <2>2
<1>6. PeriodsOpen'
  <2> SUFFICES ASSUME NEW x \in Subs, Exists(x)' PROVE subs'[x].start < subs'[x].end
    BY DEF PeriodsOpen
  <2>. QED
    BY <1>o DEF QueueInv, PeriodsOpen, Exists
<1>. QED
  BY <1>1, <1>2, <1>3, <1>4, <1>5, <1>6 DEF QueueInv

-----------------------------------------------------------------------------
(* Calls.                                                                  *)

\* A step that neither sends nor moves the period: what the call knew it still knows.
LEMMA CallGoes ==
  ASSUME ServiceInv, QueueInv, UNCHANGED <<jobs, ticks, now, charges, adrift>>,
         NEW c \in Cycles, cycles[c].pc # "idle", NEW pc, pc # "idle", Goto(c, pc),
         \A x \in Subs : Exists(x) => Exists(x)',
         \A x \in Subs \ {Sub(c)} : subs'[x] = subs[x],
         subs'[Sub(c)].start = subs[Sub(c)].start, subs'[Sub(c)].end = subs[Sub(c)].end,
         faults' \in Nat, faults' >= faults,
         pc \in BeforeAdvance =>
           cycles[c].pc \in BeforeAdvance \/ (faults = 0 /\ cycles[c].pc \in Failing),
         pc \in BeforeSend =>
           cycles[c].pc \in BeforeSend \/ (faults = 0 /\ cycles[c].pc \in Failing),
         faults' = 0 /\ pc \in Failing => cycles[c].pc \in BeforeAdvance \cup Failing,
         faults' = 0 /\ pc \in Failing \cup {"recordFailed", "recordError"} =>
           cycles[c].pc \in BeforeSend \cup Failing \cup {"recordFailed", "recordError"}
  PROVE  QueueInv'
<1>t. /\ \A x \in Subs, d \in Dates : Sent(x, d) \in Nat
      /\ \A x \in Subs : subs[x].start \in Int /\ subs[x].end \in Int
      /\ faults \in Nat
  BY QueueTypes
<1>1. PICK s \in Subs, e \in Dates : s = Sub(c) /\ e = End(c) /\ Exists(s)
  BY QueueTypes DEF QueueInv, CallsOwned, JobsCurrent, At
<1>2. subs[s].start < subs[s].end /\ Sent(s, e) <= 1
  BY <1>1 DEF QueueInv, PeriodsOpen, SentOnce
<1>3. faults' = 0 => faults = 0
  BY <1>t, SMT
<1>4. /\ pc \in BeforeAdvance => subs[s].end = e
      /\ pc \in BeforeSend => Sent(s, e) = 0
      /\ faults' = 0 /\ pc \in Failing => subs[s].end = e
      /\ faults' = 0 /\ pc \in Failing \cup {"recordFailed", "recordError"} => Sent(s, e) = 0
  BY <1>1, <1>3 DEF QueueInv, CallsCurrent
<1>5. \A x \in Subs, d \in Dates : Sent(x, d)' = Sent(x, d)
  BY DEF Sent
<1>. QED
  BY <1>t, <1>1, <1>2, <1>4, <1>5, CallMoves

\* Of the outcomes of the invocation one counts as sent, or two: paid, or out of sight.
LEMMA CallSends ==
  ASSUME ServiceInv, QueueInv, UNCHANGED <<jobs, ticks, now, subs>>,
         NEW c \in Cycles, At(c, "invoke"),
         \/ InvokePaid(c) /\ UNCHANGED adrift
         \/ InvokeLate(c)
  PROVE  QueueInv'
<1>. CycleTypeOK
  BY DEF ServiceInv, ServiceTypeOK, TypeOK
<1>t. /\ \A x \in Subs : subs[x].start \in Int /\ subs[x].end \in Int
      /\ faults \in Nat
  BY QueueTypes
<1>1. PICK s \in Subs, e \in Dates : s = Sub(c) /\ e = End(c) /\ Exists(s)
  BY QueueTypes DEF QueueInv, CallsOwned, JobsCurrent, At
<1>2. Sent(s, e) = 0 /\ subs[s].end = e /\ subs[s].start < subs[s].end
  BY <1>1 DEF QueueInv, CallsCurrent, PeriodsOpen, BeforeSend, BeforeAdvance, At
<1>3. /\ \A x \in Subs, d \in Dates : x # s \/ d # e => Sent(x, d)' = Sent(x, d)
      /\ Sent(s, e)' = 1
  BY <1>1, <1>2, SMT DEF CycleTypeOK, InvokePaid, InvokeLate, Charged, Adrift, Sent
<1>4. \/ Goto(c, "recordPaid") /\ faults' = faults
      \/ Goto(c, "recordError") /\ faults' = faults + 1
  BY DEF InvokePaid, InvokeLate, Fault
<1>5. faults' \in Nat /\ faults' >= faults /\ (Goto(c, "recordPaid") \/ faults' # 0)
  BY <1>t, <1>4, SMT
<1>6. PICK pc \in {"recordPaid", "recordError"} :
        Goto(c, pc) /\ (pc = "recordPaid" \/ faults' # 0)
  BY <1>4, <1>5
<1>7. /\ cycles[c].pc # "idle" /\ pc # "idle" /\ pc \notin BeforeSend \cup Failing
      /\ pc = "recordPaid" => pc \notin {"recordFailed", "recordError"}
  BY DEF At, BeforeSend, Failing
<1>8. Sent(s, e)' \in Nat /\ Sent(s, e)' <= 1
  BY <1>3
<1>9. \A x \in Subs : Exists(x) => Exists(x)'
  BY DEF Exists
<1>. QED
  BY <1>t, <1>1, <1>2, <1>3, <1>5, <1>6, <1>7, <1>8, <1>9, CallMoves

\* advancePeriod moves the period the call was started for: it is still the current one.
LEMMA CallAdvances ==
  ASSUME ServiceInv, QueueInv, UNCHANGED <<jobs, ticks, now, adrift>>,
         NEW c \in Cycles, Advance(c)
  PROVE  /\ QueueInv'
         /\ \A s \in Subs : subs'[s].start >= subs[s].start
<1>. TablesTypeOK /\ CycleTypeOK
  BY DEF ServiceInv, ServiceTypeOK, TypeOK
<1>t. /\ \A x \in Subs, d \in Dates : Sent(x, d) \in Nat
      /\ \A x \in Subs : subs[x].start \in Int /\ subs[x].end \in Int
      /\ faults \in Nat /\ Dates \subseteq Int
  BY QueueTypes
<1>1. PICK s \in Subs, e \in Dates : s = Sub(c) /\ e = End(c) /\ Exists(s)
  BY QueueTypes DEF QueueInv, CallsOwned, JobsCurrent, Advance, At
<1>2. subs[s].end = e /\ subs[s].start < e /\ Sent(s, e) <= 1
  BY <1>1 DEF QueueInv, CallsCurrent, PeriodsOpen, SentOnce, BeforeSend, BeforeAdvance, Advance, At
<1>. DEFINE row == [subs[s] EXCEPT !.status = "ACTIVE", !.start = e, !.end = NextPeriod(e),
                                   !.retry = 0, !.grace = NoTime]
<1>3. subs[s] \in Subscription
  BY DEF TablesTypeOK
<1>4. row.status = "ACTIVE" /\ row.start = e /\ row.end = NextPeriod(e)
  BY <1>3, Zenon DEF Subscription
<1>5. subs' = [subs EXCEPT ![s] = row]
  BY <1>1 DEF Advance
<1>. HIDE DEF row
<1>6. subs'[s] = row /\ \A x \in Subs \ {s} : subs'[x] = subs[x]
  BY <1>5 DEF TablesTypeOK
<1>7. NextPeriod(e) \in Int /\ NextPeriod(e) > e
  BY <1>t, TablesAssumption, SMT DEF NextPeriod
<1>8. \A x \in Subs : Exists(x) => Exists(x)'
  BY <1>4, <1>6 DEF Exists
<1>9. \A x \in Subs, d \in Dates : Sent(x, d)' = Sent(x, d)
  BY DEF Sent, Advance
<1>10. PICK pc \in {"emitSuccess", "returned"} : Goto(c, pc)
  BY DEF Advance
<1>11. faults' = faults /\ cycles[c].pc # "idle"
  BY DEF Advance, At
<1>12. QueueInv'
  <2>1. pc \notin BeforeAdvance \cup BeforeSend \cup Failing \cup {"recordFailed", "recordError"}
        /\ pc # "idle"
    BY DEF BeforeAdvance, BeforeSend, Failing
  <2>2. subs'[s].start = e /\ subs'[s].end = NextPeriod(e)
    BY <1>4, <1>6
  <2>3. faults' >= faults /\ faults' \in Nat
    BY <1>t, <1>11, SMT
  <2>. QED
    BY <1>t, <1>1, <1>2, <1>6, <1>7, <1>8, <1>9, <1>10, <1>11, <2>1, <2>2, <2>3, CallMoves
<1>13. \A x \in Subs : subs'[x].start >= subs[x].start
  BY <1>t, <1>2, <1>4, <1>6, SMT
<1>. QED
  BY <1>12, <1>13

\* Only advancePeriod writes a period; the other steps of a call keep their row's.
LEMMA CallKeepsRows ==
  ASSUME TypeOK, NEW c \in Cycles, Billing(c), ~Advance(c)
  PROVE  /\ \A s \in Subs : subs'[s].start = subs[s].start /\ subs'[s].end = subs[s].end
         /\ \A s \in Subs \ {Sub(c)} : subs'[s] = subs[s]
<1>. TablesTypeOK /\ CycleTypeOK
  BY DEF TypeOK
<1>1. CASE UNCHANGED subs
  BY <1>1
<1>2. ASSUME EnterGrace(c) \/ StoreRetry(c)
      PROVE  \E row : /\ subs' = [subs EXCEPT ![Sub(c)] = row]
                      /\ row.start = subs[Sub(c)].start /\ row.end = subs[Sub(c)].end
  <2>1. Sub(c) \in Subs /\ subs[Sub(c)] \in Subscription
    BY <1>2, OpenCycle DEF EnterGrace, StoreRetry, At, OpenPcs, TablesTypeOK
  <2>2. CASE EnterGrace(c)
    <3>. DEFINE row == [subs[Sub(c)] EXCEPT !.status = "PAST_DUE", !.retry = Retry(c),
                          !.grace = now + Grace]
    <3>1. row.start = subs[Sub(c)].start /\ row.end = subs[Sub(c)].end
      BY <2>1, Zenon DEF Subscription
    <3>2. subs' = [subs EXCEPT ![Sub(c)] = row]
      BY <2>2 DEF EnterGrace
    <3>. HIDE DEF row
    <3>. QED
      BY <3>1, <3>2
  <2>3. CASE StoreRetry(c)
    <3>. DEFINE row == [subs[Sub(c)] EXCEPT !.retry = Retry(c)]
    <3>1. row.start = subs[Sub(c)].start /\ row.end = subs[Sub(c)].end
      BY <2>1, Zenon DEF Subscription
    <3>2. subs' = [subs EXCEPT ![Sub(c)] = row]
      BY <2>1, <2>3 DEF StoreRetry, TablesTypeOK
    <3>. HIDE DEF row
    <3>. QED
      BY <3>1, <3>2
  <2>. QED
    BY <1>2, <2>2, <2>3
<1>3. CASE EnterGrace(c) \/ StoreRetry(c)
  <2>1. PICK row : /\ subs' = [subs EXCEPT ![Sub(c)] = row]
                   /\ row.start = subs[Sub(c)].start /\ row.end = subs[Sub(c)].end
    BY <1>2, <1>3
  <2>. QED
    BY <2>1 DEF TablesTypeOK
<1>. QED
  BY <1>1, <1>3
     DEF Billing, CycleStep, CycleFault, Start, FindPayment, CreatePayment, Dispatch, MarkMock,
         MarkProcessing, InvokePaid, InvokeFailed, InvokeError, InvokeLate, InvokeUnread,
         RecordPaid, RecordFailure, Emit, MarkRetrying, Reject, Crash, Finish, tables

\* Where a call can go without having sent or advanced, given at most one rejection.
Onward(c, pc) ==
  /\ pc \in BeforeAdvance =>
       cycles[c].pc \in BeforeAdvance \/ (faults = 0 /\ cycles[c].pc \in Failing)
  /\ pc \in BeforeSend =>
       cycles[c].pc \in BeforeSend \/ (faults = 0 /\ cycles[c].pc \in Failing)
  /\ faults' = 0 /\ pc \in Failing => cycles[c].pc \in BeforeAdvance \cup Failing
  /\ faults' = 0 /\ pc \in Failing \cup {"recordFailed", "recordError"} =>
       cycles[c].pc \in BeforeSend \cup Failing \cup {"recordFailed", "recordError"}

LEMMA CallOnward ==
  ASSUME QueueOnly, ServiceInv, NEW c \in Cycles, CycleStep(c) \/ CycleFault(c),
         ~Advance(c), ~InvokePaid(c), ~InvokeLate(c)
  PROVE  /\ UNCHANGED <<now, charges, adrift>>
         /\ cycles[c].pc # "idle"
         /\ faults' \in Nat /\ faults' >= faults
         /\ \E pc : pc # "idle" /\ Goto(c, pc) /\ Onward(c, pc)
<1>t. faults \in Nat
  BY QueueTypes
<1> USE DEF At, BeforeAdvance, BeforeSend, Failing
<1>1. UNCHANGED <<now, charges, adrift>>
  BY DEF CycleStep, CycleFault, FindPayment, CreatePayment, Dispatch, MarkMock, MarkProcessing,
         InvokeFailed, InvokeError, InvokeUnread, RecordPaid, RecordFailure, Emit, EnterGrace,
         MarkRetrying, StoreRetry, Reject, tables
<1>2. cycles[c].pc # "idle"
  BY DEF CycleStep, CycleFault, FindPayment, CreatePayment, Dispatch, MarkMock, MarkProcessing,
         InvokeFailed, InvokeError, InvokeUnread, RecordPaid, RecordFailure, Emit, EnterGrace,
         MarkRetrying, StoreRetry, Reject, OpenPcs, LivePcs
<1>f. faults' \in Nat /\ faults' >= faults
  BY <1>t, SMT DEF CycleStep, CycleFault, FindPayment, CreatePayment, Dispatch, MarkMock,
       MarkProcessing, InvokeFailed, InvokeError, InvokeUnread, RecordPaid, RecordFailure, Emit,
       EnterGrace, MarkRetrying, StoreRetry, Reject, Fault
<1>. SUFFICES \E pc : pc # "idle" /\ Goto(c, pc) /\ Onward(c, pc)
  BY <1>1, <1>2, <1>f
<1>3. CASE Reject(c)
  <2>1. faults' = faults + 1 /\ faults = 0
    BY <1>t, <1>3, TablesAssumption, SMT DEF Reject, Fault, QueueOnly, SchedulerOnly
  <2>2. Goto(c, Catch(cycles[c].pc)) /\ cycles[c].pc \in OpenPcs
    BY <1>3 DEF Reject
  <2>3. Catch(cycles[c].pc) \in {"recordError", "failed", "threw"}
    BY Zenon DEF Catch
  <2>4. Catch(cycles[c].pc) = "recordError" => cycles[c].pc \in BeforeAdvance
    BY Zenon DEF Catch
  <2>5. Catch(cycles[c].pc) = "threw" => cycles[c].pc \in BeforeSend \cup Failing
    BY <2>2, Zenon DEF Catch, OpenPcs, LivePcs
  <2>6. faults' # 0
    BY <2>1, SMT
  <2>. QED
    BY <2>1, <2>2, <2>3, <2>4, <2>5, <2>6 DEF Onward
<1>4. CASE ~Reject(c)
  <2>1. ASSUME NEW pc \in BeforeSend \cup {"recordPaid", "recordFailed", "recordError", "advance",
                                          "failed"},
               cycles[c].pc \in BeforeSend
        PROVE  pc # "idle" /\ Onward(c, pc)
    BY <2>1 DEF Onward
  <2>2. CASE FindPayment(c) \/ CreatePayment(c)
    <3>1. \E pc \in {"advanceOnly", "create", "dispatch", "threw"} : Goto(c, pc)
      BY <2>2, Zenon DEF FindPayment, CreatePayment
    <3>2. cycles[c].pc \in BeforeSend
      BY <2>2 DEF FindPayment, CreatePayment
    <3>. QED
      BY <2>1, <3>1, <3>2
  <2>3. CASE Dispatch(c)
    <3>1. \E pc \in {"failed", "advance", "mock", "processing"} : Goto(c, pc)
      BY <2>3 DEF Dispatch, Rail
    <3>2. cycles[c].pc \in BeforeSend
      BY <2>3 DEF Dispatch
    <3>. QED
      BY <2>1, <3>1, <3>2
  <2>4. CASE \/ MarkMock(c) \/ MarkProcessing(c)
             \/ InvokeFailed(c) \/ InvokeError(c) \/ InvokeUnread(c)
    <3>1. \E pc \in {"advance", "invoke", "recordPaid", "recordFailed", "recordError"} : Goto(c, pc)
      BY <2>4 DEF MarkMock, MarkProcessing, InvokeFailed, InvokeError, InvokeUnread
    <3>2. cycles[c].pc \in BeforeSend
      BY <2>4 DEF MarkMock, MarkProcessing, InvokeFailed, InvokeError, InvokeUnread
    <3>. QED
      BY <2>1, <3>1, <3>2
  <2>5. CASE RecordPaid(c)
    <3>1. Goto(c, "advance") /\ Onward(c, "advance")
      BY <2>5 DEF RecordPaid, Onward
    <3>. QED
      BY <3>1
  <2>6. CASE RecordFailure(c)
    <3>1. Goto(c, "failed") /\ Onward(c, "failed")
      BY <2>6 DEF RecordFailure, Onward
    <3>. QED
      BY <3>1
  <2>7. CASE EnterGrace(c) \/ MarkRetrying(c)
    <3>1. PICK pc \in {"emitFailed", "storeRetry"} : Goto(c, pc)
      BY <2>7 DEF EnterGrace, MarkRetrying
    <3>2. Onward(c, pc)
      BY <2>7 DEF EnterGrace, MarkRetrying, Onward
    <3>. QED
      BY <3>1, <3>2
  <2>8. CASE Emit(c) \/ StoreRetry(c)
    <3>1. Goto(c, "returned") /\ Onward(c, "returned")
      BY <2>8 DEF Emit, StoreRetry, Onward
    <3>. QED
      BY <3>1
  <2>. QED
    BY <1>4, <2>2, <2>3, <2>4, <2>5, <2>6, <2>7, <2>8 DEF CycleStep, CycleFault
<1>. QED
  BY <1>3, <1>4

\* Every step of a call.
LEMMA CallQueue ==
  ASSUME QueueOnly, ServiceInv, RowsExist, RowsExist', QueueInv, NEW c \in Cycles, Working(c)
  PROVE  /\ QueueInv'
         /\ \A s \in Subs : subs'[s].start >= subs[s].start
<1>t. \A s \in Subs : subs[s].start \in Int
  BY QueueTypes
<1>1. UNCHANGED <<jobs, ticks>> /\ (CycleStep(c) \/ CycleFault(c)) /\ Billing(c)
  BY DEF Working, Billing
<1>2. CASE Advance(c)
  <2>1. UNCHANGED <<now, adrift>>
    BY <1>1, <1>2, SMT DEF CycleStep, CycleFault, InvokeLate, Advance, At
  <2>. QED
    BY <1>1, <1>2, <2>1, CallAdvances
<1>3. CASE ~Advance(c)
  <2>1. /\ \A s \in Subs : subs'[s].start = subs[s].start /\ subs'[s].end = subs[s].end
        /\ \A s \in Subs \ {Sub(c)} : subs'[s] = subs[s]
    BY <1>1, <1>3, CallKeepsRows DEF ServiceInv, ServiceTypeOK
  <2>2. \A s \in Subs : Exists(s) => Exists(s)'
    BY <2>1 DEF RowsExist
  <2>3. CASE InvokePaid(c) \/ InvokeLate(c)
    <3>1. At(c, "invoke") /\ UNCHANGED <<now, subs>>
      BY <2>3 DEF InvokePaid, InvokeLate, tables
    <3>2. \/ InvokePaid(c) /\ UNCHANGED adrift
          \/ InvokeLate(c)
      BY <1>1, <2>3, <3>1, SMT DEF CycleStep, CycleFault, At, InvokePaid, InvokeLate, InvokeUnread, Reject, Goto
    <3>3. QueueInv'
      BY <1>1, <3>1, <3>2, CallSends
    <3>. QED
      BY <2>1, <3>3, <1>t, SMT
  <2>4. CASE ~InvokePaid(c) /\ ~InvokeLate(c)
    <3>1. /\ UNCHANGED <<now, charges, adrift>>
          /\ cycles[c].pc # "idle"
          /\ faults' \in Nat /\ faults' >= faults
      BY <1>1, <1>3, <2>4, CallOnward
    <3>2. PICK pc : pc # "idle" /\ Goto(c, pc) /\ Onward(c, pc)
      BY <1>1, <1>3, <2>4, CallOnward
    <3>3. Sub(c) \in Subs
      BY <3>1 DEF QueueInv, CallsOwned, At
    <3>4. QueueInv'
      BY <1>1, <2>1, <2>2, <3>1, <3>2, <3>3, CallGoes DEF Onward
    <3>. QED
      BY <2>1, <3>4, <1>t, SMT
  <2>. QED
    BY <2>3, <2>4
<1>. QED
  BY <1>2, <1>3

-----------------------------------------------------------------------------
(* Ticks and jobs.                                                         *)

LEMMA QueueJobs ==
  ASSUME SchedulerOnly, ServiceInv, NEW j \in JobIds
  PROVE  /\ j \in Scheduled /\ jobs[j] \in Job
         /\ \E s \in Subs, e \in Dates : j = <<s, e>>
BY DEF SchedulerOnly, JobIds, Scheduled, ServiceInv, ServiceTypeOK

\* Jobs and calls change, the rows and the money stay.
LEMMA RowsStand ==
  ASSUME UNCHANGED <<subs, charges, adrift, now, faults>>, QueueInv
  PROVE  /\ PeriodsOpen' /\ SentOnce'
         /\ \A s \in Subs, e \in Dates : Sent(s, e)' = Sent(s, e)
         /\ \A s \in Subs : subs'[s] = subs[s] /\ (Exists(s)' <=> Exists(s))
BY DEF QueueInv, PeriodsOpen, SentOnce, Sent, Exists

LEMMA ReadQueue ==
  ASSUME ServiceInv, QueueInv, NEW t \in Sweepers, ReadDue(t)
  PROVE  QueueInv'
<1>1. UNCHANGED <<subs, charges, adrift, now, faults, cycles, jobs>>
  BY DEF ReadDue, vars
<1>2. ASSUME NEW u \in Sweepers, NEW s \in Subs, NEW e \in Dates, <<s, e>> \in ticks'[u].todo
      PROVE  /\ Exists(s) /\ e <= now
             /\ subs[s].end = e \/ (subs[s].end > e /\ jobs[<<s, e>>].state # "absent")
  <2>1. CASE <<s, e>> \in ticks[u].todo
    BY <2>1 DEF QueueInv, TodoCurrent
  <2>2. CASE <<s, e>> \notin ticks[u].todo
    <3>1. ticks'[u].todo = {<<x, subs[x].end>> : x \in {y \in Subs : Due(y)}}
      BY <1>2, <2>2 DEF ReadDue, ServiceInv, ServiceTypeOK
    <3>2. Due(s) /\ subs[s].end = e
      BY <1>2, <3>1
    <3>. QED
      BY <3>2 DEF Due, Exists
  <2>. QED
    BY <2>1, <2>2
<1>3. TodoCurrent'
  BY <1>1, <1>2 DEF TodoCurrent, Exists
<1>4. CallsOwned' /\ CallsCurrent' /\ JobsCurrent'
  BY <1>1 DEF QueueInv, CallsOwned, CallsCurrent, JobsCurrent, At, Sub, End, Sent, Exists
<1>. QED
  BY <1>1, <1>3, <1>4, RowsStand DEF QueueInv

\* One job changes: what the invariant says of the others it still says.
LEMMA JobChanges ==
  ASSUME QueueOnly, ServiceInv, QueueInv, UNCHANGED <<subs, charges, adrift, now, faults>>,
         NEW s \in Subs, NEW e \in Dates, NEW job,
         jobs' = [jobs EXCEPT ![<<s, e>>] = job],
         job.state \notin {"stalled", "absent"}, job.sub = s, Exists(s), e <= now,
         job.state = "waiting" => subs[s].end = e /\ Sent(s, e) = 0,
         \A t \in Sweepers : ticks'[t].todo \subseteq ticks[t].todo
  PROVE  JobsCurrent' /\ TodoCurrent' /\ PeriodsOpen' /\ SentOnce'
<1>1. jobs'[<<s, e>>] = job /\ \A j \in JobIds \ {<<s, e>>} : jobs'[j] = jobs[j]
  BY DEF ServiceInv, ServiceTypeOK, JobIds, Scheduled
<1>2. \A x \in Subs, d \in Dates : <<x, d>> \in JobIds
  BY DEF JobIds, Scheduled
<1>3. /\ \A x \in Subs, d \in Dates : Sent(x, d)' = Sent(x, d)
      /\ \A x \in Subs : subs'[x] = subs[x] /\ (Exists(x)' <=> Exists(x))
      /\ now' = now
  BY RowsStand
<1>4. JobsCurrent'
  <2> SUFFICES ASSUME NEW x \in Subs, NEW d \in Dates
        PROVE  LET new == jobs'[<<x, d>>] IN
               /\ new.state # "stalled"
               /\ new.state # "absent" => new.sub = x /\ Exists(x)' /\ d <= now'
               /\ new.state = "waiting" => subs'[x].end = d
               /\ new.state \in {"absent", "waiting"} => Sent(x, d)' = 0
    BY DEF JobsCurrent
  <2>1. CASE <<x, d>> = <<s, e>>
    <3>1. x = s /\ d = e /\ jobs'[<<x, d>>] = job
      BY <1>1, <2>1
    <3>. QED
      BY <1>3, <3>1
  <2>2. CASE <<x, d>> # <<s, e>>
    <3>1. jobs'[<<x, d>>] = jobs[<<x, d>>]
      BY <1>1, <1>2, <2>2
    <3>. QED
      BY <1>3, <3>1 DEF QueueInv, JobsCurrent
  <2>. QED
    BY <2>1, <2>2
<1>5. TodoCurrent'
  <2> SUFFICES ASSUME NEW t \in Sweepers, NEW x \in Subs, NEW d \in Dates,
                      <<x, d>> \in ticks[t].todo
        PROVE  /\ Exists(x) /\ d <= now
               /\ subs[x].end = d \/ (subs[x].end > d /\ jobs'[<<x, d>>].state # "absent")
    BY RowsStand DEF TodoCurrent
  <2>1. jobs'[<<x, d>>].state # "absent" \/ jobs'[<<x, d>>] = jobs[<<x, d>>]
    BY <1>1, <1>2
  <2>. QED
    BY <2>1 DEF QueueInv, TodoCurrent
<1>. QED
  BY <1>4, <1>5, RowsStand

LEMMA AddQueue ==
  ASSUME QueueOnly, ServiceInv, QueueInv, NEW t \in Sweepers, AddJob(t)
  PROVE  QueueInv'
<1>1. UNCHANGED <<subs, charges, adrift, now, faults, cycles>>
  BY DEF AddJob, vars
<1>2. PICK j \in ticks[t].todo :
        /\ ticks' = [ticks EXCEPT ![t].todo = @ \ {j}]
        /\ jobs' = IF jobs[j] = NoJob THEN [jobs EXCEPT ![j] = NewJob(j[1])] ELSE jobs
  BY DEF AddJob
<1>3. PICK s \in Subs, e \in Dates : j = <<s, e>>
  BY DEF ServiceInv, ServiceTypeOK, Scheduled
<1>4. \A u \in Sweepers : ticks'[u].todo \subseteq ticks[u].todo
  BY <1>2 DEF ServiceInv, ServiceTypeOK
<1>5. CASE UNCHANGED jobs
  <2>1. CallsOwned' /\ CallsCurrent' /\ JobsCurrent'
    BY <1>1, <1>5 DEF QueueInv, CallsOwned, CallsCurrent, JobsCurrent, At, Sub, End, Sent, Exists
  <2>2. TodoCurrent'
    BY <1>1, <1>4, <1>5 DEF QueueInv, TodoCurrent, Exists
  <2>. QED
    BY <1>1, <2>1, <2>2, RowsStand DEF QueueInv
<1>6. CASE jobs[<<s, e>>] = NoJob /\ jobs' = [jobs EXCEPT ![<<s, e>>] = NewJob(s)]
  <2>1. jobs[<<s, e>>].state = "absent"
    BY <1>6 DEF NoJob
  <2>2. Exists(s) /\ e <= now /\ subs[s].end = e /\ Sent(s, e) = 0
    BY <1>2, <1>3, <2>1 DEF QueueInv, TodoCurrent, JobsCurrent
  <2>3. NewJob(s).state = "waiting" /\ NewJob(s).sub = s
    BY Zenon DEF NewJob, NoJob
  <2>4. JobsCurrent' /\ TodoCurrent' /\ PeriodsOpen' /\ SentOnce'
    BY <1>1, <1>4, <1>6, <2>2, <2>3, JobChanges
  <2>5. \A i \in JobIds : jobs[i].state = "active" => jobs'[i] = jobs[i]
    BY <1>6, <2>1 DEF ServiceInv, ServiceTypeOK
  <2>6. CallsOwned'
    <3>1. \A c \in Cycles : End(c) \in Dates
      BY QueueTypes
    <3>. QED
      BY <1>1, <2>5, <3>1 DEF QueueInv, CallsOwned, At, Sub, End, JobIds, Scheduled
  <2>7. CallsCurrent'
    BY <1>1 DEF QueueInv, CallsCurrent, At, Sub, End, Sent
  <2>. QED
    BY <2>4, <2>6, <2>7 DEF QueueInv
<1>. QED
  BY <1>2, <1>3, <1>5, <1>6

\* The job that is taken waits, so its period is the current one: the call that begins
\* reads just that.
LEMMA TakeQueue ==
  ASSUME QueueOnly, ServiceInv, QueueInv, NEW j \in JobIds, NEW c \in Cycles, TakeJob(j, c)
  PROVE  QueueInv'
<1>. SchedulerOnly
  BY DEF QueueOnly
<1>1. UNCHANGED <<subs, charges, adrift, now, faults, ticks>> /\ jobs[j].state = "waiting"
  BY DEF TakeJob, Start, tables
<1>2. PICK s \in Subs, e \in Dates : j = <<s, e>>
  BY QueueJobs
<1>3. jobs[j].sub = s /\ Exists(s) /\ e <= now /\ subs[s].end = e /\ Sent(s, e) = 0
  BY <1>1, <1>2 DEF QueueInv, JobsCurrent
<1>. DEFINE job == [jobs[j] EXCEPT !.state = "active", !.by = c]
<1>4. job.state = "active" /\ job.by = c /\ job.sub = s
  BY <1>3, QueueJobs, Zenon DEF Job
<1>5. jobs' = [jobs EXCEPT ![<<s, e>>] = job]
  BY <1>2 DEF TakeJob, ServiceInv, ServiceTypeOK
<1>. HIDE DEF job
<1>6. JobsCurrent' /\ TodoCurrent' /\ PeriodsOpen' /\ SentOnce'
  BY <1>1, <1>3, <1>4, <1>5, JobChanges
<1>7. jobs'[<<s, e>>] = job /\ \A i \in JobIds \ {<<s, e>>} : jobs'[i] = jobs[i]
  BY <1>2, <1>5 DEF ServiceInv, ServiceTypeOK
<1>8. PICK pc \in {"returned", "find"} :
        cycles' = [cycles EXCEPT ![c] = [pc |-> pc, sub |-> s, end |-> e, retry |-> subs[s].retry]]
  BY <1>3 DEF TakeJob, Start
<1>9. /\ cycles'[c].pc = pc /\ cycles'[c].sub = s /\ cycles'[c].end = e
      /\ \A d \in Cycles \ {c} : cycles'[d] = cycles[d]
  BY <1>8 DEF ServiceInv, ServiceTypeOK, TypeOK, CycleTypeOK
<1>10. \A d \in Cycles : End(d) \in Dates
  BY QueueTypes
<1>11. ASSUME NEW d \in Cycles \ {c}, cycles[d].pc # "idle"
       PROVE  /\ Sub(d) \in Subs /\ jobs'[<<Sub(d), End(d)>>] = jobs[<<Sub(d), End(d)>>]
              /\ jobs[<<Sub(d), End(d)>>].state = "active" /\ jobs[<<Sub(d), End(d)>>].by = d
  <2>1. Sub(d) \in Subs /\ jobs[<<Sub(d), End(d)>>].state = "active"
        /\ jobs[<<Sub(d), End(d)>>].by = d
    BY <1>11 DEF QueueInv, CallsOwned, At
  <2>2. <<Sub(d), End(d)>> \in JobIds \ {<<s, e>>}
    BY <1>1, <1>2, <1>10, <2>1 DEF JobIds, Scheduled
  <2>. QED
    BY <1>7, <2>1, <2>2
<1>12. CallsOwned'
  <2> SUFFICES ASSUME NEW d \in Cycles, cycles'[d].pc # "idle"
        PROVE  LET k == <<cycles'[d].sub, cycles'[d].end>>
               IN  cycles'[d].sub \in Subs /\ jobs'[k].state = "active" /\ jobs'[k].by = d
    BY DEF CallsOwned, At, Sub, End
  <2>1. CASE d = c
    BY <1>4, <1>7, <1>9, <2>1
  <2>2. CASE d # c
    BY <1>9, <1>11, <2>2 DEF Sub, End
  <2>. QED
    BY <2>1, <2>2
<1>13. CallsCurrent'
  <2>1. ASSUME NEW d \in Cycles \ {c}
        PROVE  UNCHANGED <<Sub(d), End(d), Sent(Sub(d), End(d))>> /\ cycles'[d].pc = cycles[d].pc
    BY <1>1, <1>9 DEF Sub, End, Sent
  <2>2. /\ cycles'[c].pc \in {"returned", "find"}
        /\ Sub(c)' = s /\ End(c)' = e
    BY <1>9 DEF Sub, End
  <2>3. Sent(Sub(c), End(c))' = 0
    BY <1>1, <1>3, <2>2 DEF Sent
  <2> SUFFICES ASSUME NEW d \in Cycles
        PROVE  /\ cycles'[d].pc \in BeforeAdvance => subs[Sub(d)'].end = End(d)'
               /\ cycles'[d].pc \in BeforeSend => Sent(Sub(d), End(d))' = 0
               /\ faults = 0 /\ cycles'[d].pc \in Failing => subs[Sub(d)'].end = End(d)'
               /\ faults = 0 /\ cycles'[d].pc \in Failing \cup {"recordFailed", "recordError"}
                    => Sent(Sub(d), End(d))' = 0
    BY <1>1 DEF CallsCurrent, BeforeAdvance, BeforeSend, Failing
  <2>4. CASE d = c
    BY <1>3, <2>2, <2>3, <2>4
  <2>5. CASE d # c
    BY <2>1, <2>5 DEF QueueInv, CallsCurrent
  <2>. QED
    BY <2>4, <2>5
<1>. QED
  BY <1>6, <1>12, <1>13 DEF QueueInv

\* A call that ends gives its job back.  Only one that threw is tried again, and it got
\* neither to the contract nor to the advance.
LEMMA FinishQueue ==
  ASSUME QueueOnly, ServiceInv, QueueInv, NEW j \in JobIds, FinishJob(j)
  PROVE  QueueInv'
<1>. SchedulerOnly
  BY DEF QueueOnly
<1>1. UNCHANGED <<subs, charges, adrift, now, faults, ticks>> /\ jobs[j].state = "active"
  BY DEF FinishJob, Finish, tables
<1>2. PICK c \in Cycles : c = jobs[j].by
  BY <1>1, ActiveCall
<1>3. PICK s \in Subs, e \in Dates : j = <<s, e>>
  BY QueueJobs
<1>t. \A d \in Cycles : End(d) \in Dates
  BY QueueTypes
<1>4. cycles[c].pc # "idle" /\ s = Sub(c) /\ e = End(c)
  <2>1. cycles[c].pc # "idle"
    BY <1>1, <1>2 DEF ServiceInv, JobsOwnCalls, At
  <2>2. /\ <<Sub(c), End(c)>> \in JobIds
        /\ jobs[<<Sub(c), End(c)>>].by = c
    BY <1>t, <2>1 DEF QueueInv, CallsOwned, At, JobIds, Scheduled
  <2>3. j = <<Sub(c), End(c)>>
    BY <1>1, <1>2, <2>2 DEF ServiceInv, JobsOwnCalls
  <2>. QED
    BY <1>3, <2>1, <2>3
<1>5. Exists(s) /\ e <= now /\ jobs[j].sub = s
  BY <1>1, <1>3 DEF QueueInv, JobsCurrent
<1>6. cycles' = [cycles EXCEPT ![c] = IdleCycle]
  BY <1>2 DEF FinishJob, Finish
<1>7. cycles'[c].pc = "idle" /\ \A d \in Cycles \ {c} : cycles'[d] = cycles[d]
  BY <1>6 DEF ServiceInv, ServiceTypeOK, TypeOK, CycleTypeOK, IdleCycle
<1>8. PICK job :
        /\ jobs' = [jobs EXCEPT ![j] = job]
        /\ \/ At(c, "threw") /\ job = [jobs[j] EXCEPT !.state = "waiting", !.by = None, !.tries = @ + 1]
           \/ job = [jobs[j] EXCEPT !.state = "completed", !.by = None]
           \/ job = [jobs[j] EXCEPT !.state = "failed", !.by = None, !.tries = @ + 1]
  <2>1. j \notin Manual
    BY DEF QueueOnly, SchedulerOnly
  <2>. DEFINE threw == At(jobs[j].by, "threw")
              again == [jobs[j] EXCEPT !.state = "waiting", !.by = None, !.tries = @ + 1]
              done == [jobs[j] EXCEPT !.state = "completed", !.by = None]
              gone == [jobs[j] EXCEPT !.state = "failed", !.by = None, !.tries = @ + 1]
              job == IF threw /\ jobs[j].tries + 1 < Attempts THEN again
                     ELSE IF j \in Manual THEN NoJob
                     ELSE IF threw THEN gone
                     ELSE done
  <2>2. jobs' = [jobs EXCEPT ![j] = job]
    BY DEF FinishJob
  <2>3. (job = again /\ threw) \/ job = done \/ job = gone
    <3>. HIDE DEF again, done, gone
    <3>. QED
      BY <2>1, SMT DEF At
  <2>. HIDE DEF job
  <2>. QED
    BY <1>2, <2>2, <2>3
<1>9. /\ job.sub = s /\ job.state \in {"completed", "failed", "waiting"}
      /\ job.state = "waiting" => At(c, "threw")
  <2>1. jobs[j] \in Job
    BY QueueJobs
  <2>2. /\ [jobs[j] EXCEPT !.state = "completed", !.by = None].sub = s
        /\ [jobs[j] EXCEPT !.state = "completed", !.by = None].state = "completed"
    BY <1>5, <2>1, SMT DEF Job
  <2>3. ASSUME NEW st \in {"waiting", "failed"}
        PROVE  LET new == [jobs[j] EXCEPT !.state = st, !.by = None, !.tries = @ + 1]
               IN  new.sub = s /\ new.state = st
    BY <1>5, <2>1, SMT DEF Job
  <2>. QED
    BY <1>8, <2>2, <2>3
<1>10. At(c, "threw") => subs[s].end = e /\ Sent(s, e) = 0
  BY <1>4 DEF QueueInv, CallsCurrent, BeforeSend, BeforeAdvance, At
<1>11. JobsCurrent' /\ TodoCurrent' /\ PeriodsOpen' /\ SentOnce'
  <2>1. job.state \notin {"stalled", "absent"}
    BY <1>9
  <2>2. job.state = "waiting" => subs[s].end = e /\ Sent(s, e) = 0
    BY <1>9, <1>10
  <2>3. jobs' = [jobs EXCEPT ![<<s, e>>] = job]
    BY <1>3, <1>8
  <2>4. \A t \in Sweepers : ticks'[t].todo \subseteq ticks[t].todo
    BY <1>1
  <2>. QED
    BY <1>1, <1>5, <1>9, <2>1, <2>2, <2>3, <2>4, JobChanges
<1>12. \A i \in JobIds \ {j} : jobs'[i] = jobs[i]
  BY <1>8 DEF ServiceInv, ServiceTypeOK
<1>13. CallsOwned'
  <2> SUFFICES ASSUME NEW d \in Cycles, cycles'[d].pc # "idle"
        PROVE  LET k == <<cycles'[d].sub, cycles'[d].end>>
               IN  cycles'[d].sub \in Subs /\ jobs'[k].state = "active" /\ jobs'[k].by = d
    BY DEF CallsOwned, At, Sub, End
  <2>1. d # c /\ cycles'[d] = cycles[d]
    BY <1>7
  <2>2. /\ Sub(d) \in Subs /\ jobs[<<Sub(d), End(d)>>].state = "active"
        /\ jobs[<<Sub(d), End(d)>>].by = d
    BY <2>1 DEF QueueInv, CallsOwned, At
  <2>3. <<Sub(d), End(d)>> \in JobIds \ {j}
    BY <1>2, <1>t, <2>1, <2>2 DEF JobIds, Scheduled
  <2>. QED
    BY <1>12, <2>1, <2>2, <2>3 DEF Sub, End
<1>14. CallsCurrent'
  <2> SUFFICES ASSUME NEW d \in Cycles \ {c}
        PROVE  /\ cycles'[d].pc \in BeforeAdvance => subs[Sub(d)'].end = End(d)'
               /\ cycles'[d].pc \in BeforeSend => Sent(Sub(d), End(d))' = 0
               /\ faults = 0 /\ cycles'[d].pc \in Failing => subs[Sub(d)'].end = End(d)'
               /\ faults = 0 /\ cycles'[d].pc \in Failing \cup {"recordFailed", "recordError"}
                    => Sent(Sub(d), End(d))' = 0
    BY <1>1, <1>7 DEF CallsCurrent, BeforeAdvance, BeforeSend, Failing
  <2>1. UNCHANGED <<Sub(d), End(d), Sent(Sub(d), End(d))>> /\ cycles'[d].pc = cycles[d].pc
    BY <1>1, <1>7 DEF Sub, End, Sent
  <2>. QED
    BY <2>1 DEF QueueInv, CallsCurrent
<1>. QED
  BY <1>11, <1>13, <1>14 DEF QueueInv

-----------------------------------------------------------------------------
(* Everything else.                                                        *)

\* Without resume, a route opens the first period of a subscription or leaves it alone.
LEMMA ServingKeepsRows ==
  ASSUME SchedulerOnly, TypeOK, RowsExist, Serving
  PROVE  \A s \in Subs :
           \/ subs'[s].start = subs[s].start /\ subs'[s].end = subs[s].end
           \/ ~Exists(s) /\ subs'[s].start < subs'[s].end /\ subs'[s].start >= subs[s].start
<1>. TablesTypeOK /\ ApiTypeOK
  BY DEF TypeOK
<1>1. ASSUME NEW s \in Subs, NEW trial \in Trials, CreateSubscription(s, trial)
      PROVE  /\ \A x \in Subs \ {s} : subs'[x] = subs[x]
             /\ ~Exists(s) /\ subs'[s].start < subs'[s].end /\ subs'[s].start >= subs[s].start
  <2>. DEFINE row == [NoSubscription EXCEPT
                        !.status = IF trial > 0 THEN "TRIALING" ELSE "ACTIVE",
                        !.start = now + trial, !.end = NextPeriod(now + trial)]
  <2>1. row.start = now + trial /\ row.end = NextPeriod(now + trial)
    BY Zenon DEF NoSubscription
  <2>2. subs' = [subs EXCEPT ![s] = row] /\ ~Exists(s)
    BY <1>1 DEF CreateSubscription
  <2>. HIDE DEF row
  <2>3. subs[s].start = NoTime
    BY <2>2 DEF RowsExist
  <2>4. now + trial < NextPeriod(now + trial) /\ now + trial >= subs[s].start
    BY <2>3, TablesAssumption, SMT DEF TablesTypeOK, NextPeriod, NoTime
  <2>. QED
    BY <2>1, <2>2, <2>4 DEF TablesTypeOK
<1>2. CASE \E r \in Requests, op \in Ops, s \in Subs : ReadForUpdate(r, op, s)
  BY <1>2 DEF ReadForUpdate, tables
<1>3. ASSUME NEW r \in Requests, CancelNow(r) \/ CancelAtEnd(r) \/ Pause(r) \/ Resume(r)
      PROVE  \A x \in Subs : subs'[x].start = subs[x].start /\ subs'[x].end = subs[x].end
  <2>1. PICK s \in Subs : s = requests[r].sub
    BY <1>3, PendingRequest DEF CancelNow, CancelAtEnd, Pause, Resume
  <2>2. subs[s] \in Subscription
    BY DEF TablesTypeOK
  <2>3. ASSUME NEW row, row.start = subs[s].start, row.end = subs[s].end, Reply(r, row)
        PROVE  \A x \in Subs : subs'[x].start = subs[x].start /\ subs'[x].end = subs[x].end
    BY <2>1, <2>3 DEF Reply, TablesTypeOK
  <2>4. \A row \in {[subs[s] EXCEPT !.cancelAtEnd = FALSE, !.status = "CANCELLED"],
                   [subs[s] EXCEPT !.cancelAtEnd = TRUE, !.status = requests[r].status],
                   [subs[s] EXCEPT !.paused = TRUE]} :
          row.start = subs[s].start /\ row.end = subs[s].end
    BY <2>2, Zenon DEF Subscription
  <2>5. CASE CancelNow(r) \/ CancelAtEnd(r) \/ Pause(r)
    BY <2>1, <2>3, <2>4, <2>5 DEF CancelNow, CancelAtEnd, Pause
  <2>6. ~Resume(r)
    BY SMT DEF SchedulerOnly, Resume, Pending, ApiTypeOK, Request, NoRequest
  <2>. QED
    BY <1>3, <2>5, <2>6
<1>. QED
  BY <1>1, <1>2, <1>3 DEF Serving, ApiStep

\* A sweep cancels, which moves no period.
LEMMA SweepingKeepsRows ==
  ASSUME TypeOK, NEW w \in Sweepers, Sweeping(w)
  PROVE  \A s \in Subs : subs'[s].start = subs[s].start /\ subs'[s].end = subs[s].end
<1>1. CASE UNCHANGED subs
  BY <1>1
<1>2. ASSUME NEW s \in Subs, CancelExpired(w, s)
      PROVE  \A x \in Subs : subs'[x].start = subs[x].start /\ subs'[x].end = subs[x].end
  <2>. DEFINE row == [subs[s] EXCEPT !.status = "CANCELLED"]
  <2>1. subs[s] \in Subscription
    BY DEF TypeOK, TablesTypeOK
  <2>2. row.start = subs[s].start /\ row.end = subs[s].end
    BY <2>1, Zenon DEF Subscription
  <2>3. subs' = [subs EXCEPT ![s] = row]
    BY <1>2 DEF CancelExpired, TypeOK, TablesTypeOK
  <2>. HIDE DEF row
  <2>. QED
    BY <2>2, <2>3 DEF TypeOK, TablesTypeOK
<1>. QED
  BY <1>1, <1>2 DEF Sweeping, SweepStep, FindExpired, EmitCancelled, AbortSweep, tables

\* Steps that leave jobs and calls alone, or only end a call or a tick.
LEMMA AsideQueue ==
  ASSUME QueueOnly, ServiceInv, ServiceInv', RowsExist, RowsExist', QueueInv,
         UNCHANGED jobs,
         \A t \in Sweepers : ticks'[t].todo \subseteq ticks[t].todo,
         \A c \in Cycles : cycles'[c] = cycles[c] \/ cycles'[c].pc = "idle",
         \A s \in Subs :
           \/ subs'[s].start = subs[s].start /\ subs'[s].end = subs[s].end
           \/ ~Exists(s) /\ subs'[s].start < subs'[s].end /\ subs'[s].start >= subs[s].start,
         \A s \in Subs, e \in Dates : Sent(s, e)' <= Sent(s, e),
         now' >= now, faults' >= faults
  PROVE  /\ QueueInv'
         /\ \A s \in Subs : subs'[s].start >= subs[s].start
<1>1. /\ \A s \in Subs : subs[s].start \in Int
      /\ \A s \in Subs, e \in Dates : Sent(s, e)' \in Nat
      /\ now' \in Nat /\ faults' \in Nat
  <2>1. \A s \in Subs : subs[s].start \in Int
    BY QueueTypes
  <2>2. /\ charges' \in [Subs -> [Dates -> Nat]] /\ adrift' \in [Subs -> [Dates -> Nat]]
        /\ now' \in 0 .. MaxNow /\ faults' \in Nat
    BY DEF ServiceInv, ServiceTypeOK, TypeOK, TablesTypeOK, CycleTypeOK
  <2>3. \A s \in Subs, e \in Dates : charges'[s][e] \in Nat /\ adrift'[s][e] \in Nat
    BY <2>2
  <2>. QED
    BY <2>1, <2>2, <2>3, SMT DEF Sent
<1>2. \A s \in Subs : Exists(s) =>
        Exists(s)' /\ subs'[s].start = subs[s].start /\ subs'[s].end = subs[s].end
  BY DEF RowsExist
<1>3. ASSUME NEW s \in Subs, ~Exists(s), Exists(s)' PROVE subs'[s].start < subs'[s].end
  BY <1>3 DEF RowsExist
<1>4. \A s \in Subs : subs'[s].start >= subs[s].start
  BY <1>1, SMT
<1>5. QueueInv'
  BY <1>1, <1>2, <1>3, Kept
<1>. QED
  BY <1>4, <1>5

\* The inductive step, and with it that no step takes a period back.
LEMMA NextQueue ==
  ASSUME QueueOnly, ServiceInv, ServiceInv', RowsExist, RowsExist', QueueInv,
         [ServiceNext]_serviceVars
  PROVE  /\ QueueInv'
         /\ \A s \in Subs : subs'[s].start >= subs[s].start
<1>. SchedulerOnly
  BY DEF QueueOnly
<1>. TypeOK
  BY DEF ServiceInv, ServiceTypeOK
<1>t. /\ \A s \in Subs : subs[s].start \in Int
      /\ \A s \in Subs, e \in Dates : Sent(s, e) \in Nat
      /\ now \in Nat /\ faults \in Nat
  BY QueueTypes
<1>s. ASSUME UNCHANGED <<charges, adrift>>
      PROVE  \A s \in Subs, e \in Dates : Sent(s, e)' <= Sent(s, e)
  <2>1. \A s \in Subs, e \in Dates : Sent(s, e)' = Sent(s, e)
    BY <1>s DEF Sent
  <2>. QED
    BY <1>t, <2>1, SMT
<1>o. now >= now /\ faults >= faults /\ \A s \in Subs : subs[s].start >= subs[s].start
  BY <1>t, SMT
<1>1. ASSUME NEW t \in Sweepers, ReadDue(t) \/ AddJob(t)
      PROVE  QueueInv' /\ \A s \in Subs : subs'[s].start >= subs[s].start
  <2>1. UNCHANGED subs
    BY <1>1 DEF ReadDue, AddJob, vars
  <2>. QED
    BY <1>1, <1>o, <2>1, ReadQueue, AddQueue
<1>2. ASSUME NEW t \in Sweepers, BeginSweep(t) \/ SweepOn(t) \/ AbortTick(t)
      PROVE  QueueInv' /\ \A s \in Subs : subs'[s].start >= subs[s].start
  <2>1. /\ Sweeping(t) \/ UNCHANGED vars
        /\ UNCHANGED <<charges, adrift, cycles, jobs>>
    BY <1>2 DEF BeginSweep, SweepOn, AbortTick, Sweeping, SweepStep, vars, cycleVars
  <2>2. \A s \in Subs : subs'[s].start = subs[s].start /\ subs'[s].end = subs[s].end
    BY <2>1, SweepingKeepsRows DEF vars
  <2>3. now' >= now /\ faults' >= faults
    BY <1>t, <2>1, SMT DEF Sweeping, SweepStep, FindExpired, CancelExpired, EmitCancelled,
                           AbortSweep, Fault, vars
  <2>4. \A u \in Sweepers : ticks'[u].todo \subseteq ticks[u].todo
    BY <1>2 DEF BeginSweep, SweepOn, AbortTick, IdleTick, ServiceInv, ServiceTypeOK
  <2>. QED
    BY <1>s, <2>1, <2>2, <2>3, <2>4, AsideQueue
<1>3. ASSUME NEW j \in JobIds, RecoverJob(j) \/ Evict(j) PROVE FALSE
  <2>1. PICK s \in Subs, e \in Dates : j = <<s, e>>
    BY QueueJobs
  <2>2. jobs[j].state # "stalled"
    BY <2>1 DEF QueueInv, JobsCurrent
  <2>. QED
    BY <1>3, <2>2 DEF RecoverJob, Evict, QueueOnly, SchedulerOnly
<1>4. ASSUME NEW j \in JobIds, FinishJob(j)
      PROVE  QueueInv' /\ \A s \in Subs : subs'[s].start >= subs[s].start
  <2>1. UNCHANGED subs
    BY <1>4 DEF FinishJob, Finish, tables
  <2>. QED
    BY <1>4, <1>o, <2>1, FinishQueue
<1>5. ASSUME NEW j \in JobIds, NEW c \in Cycles, TakeJob(j, c)
      PROVE  QueueInv' /\ \A s \in Subs : subs'[s].start >= subs[s].start
  <2>1. UNCHANGED subs
    BY <1>5 DEF TakeJob, Start, tables
  <2>. QED
    BY <1>5, <1>o, <2>1, TakeQueue
<1>6. ASSUME NEW c \in Cycles, RunInline(c)
      PROVE  QueueInv' /\ \A s \in Subs : subs'[s].start >= subs[s].start
  <2>1. Finish(c) /\ UNCHANGED <<jobs, ticks>>
    BY <1>6 DEF RunInline, QueueOnly, SchedulerOnly
  <2>2. UNCHANGED <<subs, charges, adrift, now, faults>> /\ cycles' = [cycles EXCEPT ![c] = IdleCycle]
    BY <2>1 DEF Finish, tables
  <2>3. \A d \in Cycles : cycles'[d] = cycles[d] \/ cycles'[d].pc = "idle"
    BY <2>2 DEF IdleCycle, TypeOK, CycleTypeOK
  <2>. QED
    BY <1>s, <1>o, <2>1, <2>2, <2>3, AsideQueue
<1>7. ASSUME NEW c \in Cycles, CrashWorker(c) PROVE FALSE
  BY <1>7 DEF CrashWorker, Crash, QueueOnly, SchedulerOnly
<1>8. ASSUME NEW m \in Manual PROVE FALSE
  BY <1>8 DEF QueueOnly, SchedulerOnly
<1>9. CASE Serving /\ UNCHANGED <<jobs, ticks>>
  <2>1. UNCHANGED <<charges, adrift, cycles, now, faults>>
    BY <1>9 DEF Serving, ApiStep, CreateSubscription, ReadForUpdate, CancelNow, CancelAtEnd,
                Pause, Resume, Reply, cycleVars
  <2>. QED
    BY <1>9, <1>s, <1>o, <2>1, ServingKeepsRows, AsideQueue
<1>10. CASE Settling /\ UNCHANGED <<jobs, ticks>>
  <2>1. UNCHANGED <<subs, now, faults, cycles>>
    BY <1>10, SettlingType
  <2>2. \A s \in Subs, e \in Dates : Sent(s, e)' <= Sent(s, e)
    <3>1. PICK s \in Subs, e \in Dates : Land(s, e) \/ Lapse(s, e)
      BY <1>10 DEF Settling, ChainStep
    <3>2. /\ charges \in [Subs -> [Dates -> Nat]] /\ adrift \in [Subs -> [Dates -> Nat]]
          /\ \/ /\ charges' = [charges EXCEPT ![s][e] = @ + 1]
                /\ adrift' = [adrift EXCEPT ![s][e] = @ - 1]
             \/ charges' = charges /\ adrift' = [adrift EXCEPT ![s][e] = @ - 1]
      BY <3>1 DEF Land, Lapse, TypeOK, CycleTypeOK
    <3>3. ASSUME NEW x \in Subs, NEW d \in Dates
          PROVE  charges'[x][d] + adrift'[x][d] <= charges[x][d] + adrift[x][d]
      <4>1. charges[x][d] \in Nat /\ adrift[x][d] \in Nat
        BY <3>2
      <4>2. CASE x = s /\ d = e
        <5>1. adrift'[x][d] = adrift[x][d] - 1 /\ charges'[x][d] \in {charges[x][d], charges[x][d] + 1}
          BY <3>2, <4>2
        <5>. QED
          BY <4>1, <5>1, SMT
      <4>3. CASE x # s \/ d # e
        <5>1. adrift'[x][d] = adrift[x][d] /\ charges'[x][d] = charges[x][d]
          BY <3>2, <4>3
        <5>. QED
          BY <4>1, <5>1, SMT
      <4>. QED
        BY <4>2, <4>3
    <3>. QED
      BY <3>3 DEF Sent
  <2>. QED
    BY <1>10, <1>o, <2>1, <2>2, AsideQueue
<1>11. CASE Passing /\ UNCHANGED <<jobs, ticks>>
  <2>1. UNCHANGED <<subs, faults, cycles, charges, adrift>> /\ now' >= now
    BY <1>t, <1>11, SMT DEF Passing, Tick, tables, cycleVars
  <2>. QED
    BY <1>11, <1>s, <1>o, <2>1, AsideQueue
<1>12. CASE UNCHANGED serviceVars
  <2>1. UNCHANGED <<subs, faults, cycles, charges, adrift, now, jobs, ticks>>
    BY <1>12 DEF serviceVars, vars
  <2>. QED
    BY <1>s, <1>o, <2>1, AsideQueue
<1>. QED
  BY <1>1, <1>2, <1>3, <1>4, <1>5, <1>6, <1>7, <1>8, <1>9, <1>10, <1>11, <1>12, CallQueue
     DEF ServiceNext

LEMMA InitQueue == QueueOnly /\ ServiceInit => QueueInv
<1> SUFFICES ASSUME ServiceInit PROVE QueueInv
  OBVIOUS
<1>1. /\ \A c \in Cycles : cycles[c].pc = "idle"
      /\ \A s \in Subs, e \in Dates : Sent(s, e) = 0
      /\ \A s \in Subs : ~Exists(s)
      /\ \A s \in Subs, e \in Dates : jobs[<<s, e>>].state = "absent"
      /\ \A t \in Sweepers : ticks[t].todo = {}
  BY SMT DEF ServiceInit, Init, TablesInit, CycleInit, IdleCycle, Sent, Exists, NoSubscription, NoJob,
             JobIds, Scheduled, IdleTick
<1>. QED
  BY <1>1, SMT DEF QueueInv, CallsOwned, CallsCurrent, JobsCurrent, TodoCurrent, SentOnce,
                   PeriodsOpen, At, BeforeSend, BeforeAdvance, Failing

\* The whole invariant, from the engine's and the service's.
LEMMA QueueInvariant ==
  ASSUME QueueOnly
  PROVE  ServiceSafety => [](ServiceInv /\ RowsExist /\ QueueInv)
<1>1. ServiceInit => ServiceInv /\ RowsExist /\ QueueInv
  BY InitServiceType, InitRows, InitQueue DEF ServiceInit
<1>2. ServiceInv /\ RowsExist /\ QueueInv /\ [ServiceNext]_serviceVars
        => (ServiceInv /\ RowsExist /\ QueueInv)'
  <2> SUFFICES ASSUME ServiceInv, RowsExist, QueueInv, [ServiceNext]_serviceVars
               PROVE  ServiceInv' /\ RowsExist' /\ QueueInv'
    OBVIOUS
  <2>1. ServiceInv'
    BY NextServiceInv
  <2>2. RowsExist'
    BY StepOfEngine, NextRows DEF ServiceInv, ServiceTypeOK
  <2>. QED
    BY <2>1, <2>2, NextQueue
<1>. QED
  BY <1>1, <1>2, PTL DEF ServiceSafety

-----------------------------------------------------------------------------

\* Two calls never work on one period of a subscription at a time, however ticks
\* overlap and jobs are tried again: both would be the call of the period's one job.
THEOREM JobIdsSeparateCalls == QueueOnly => (ServiceSafety => []OneCallPerPeriod)
<1> SUFFICES ASSUME QueueOnly PROVE ServiceSafety => []OneCallPerPeriod
  OBVIOUS
<1>1. ServiceInv /\ QueueInv => OneCallPerPeriod
  <2> SUFFICES ASSUME QueueInv, NEW c \in Cycles, NEW d \in Cycles,
                      cycles[c].pc \in OpenPcs, cycles[d].pc \in OpenPcs,
                      <<Sub(c), End(c)>> = <<Sub(d), End(d)>>
               PROVE  c = d
    BY DEF OneCallPerPeriod
  <2>1. ~At(c, "idle") /\ ~At(d, "idle")
    BY DEF At, OpenPcs, LivePcs
  <2>. QED
    BY <2>1 DEF QueueInv, CallsOwned
<1>. QED
  BY <1>1, QueueInvariant, PTL

\* No period is charged twice, transactions whose answer came too late included: a
\* period's job runs again only after an attempt that sent nothing.
THEOREM JobIdsChargeOnce == QueueOnly => (ServiceSafety => []ChargedOnce)
<1> SUFFICES ASSUME QueueOnly PROVE ServiceSafety => []ChargedOnce
  OBVIOUS
<1>1. ServiceInv /\ QueueInv => ChargedOnce
  <2> SUFFICES ASSUME ServiceInv, QueueInv, NEW s \in Subs, NEW e \in Dates
               PROVE  charges[s][e] <= 1
    BY DEF ChargedOnce
  <2>1. charges[s][e] \in Nat /\ adrift[s][e] \in Nat
    BY DEF ServiceInv, ServiceTypeOK, TypeOK, CycleTypeOK
  <2>2. charges[s][e] + adrift[s][e] <= 1
    BY DEF QueueInv, SentOnce, Sent
  <2>. QED
    BY <2>1, <2>2, SMT
<1>. QED
  BY <1>1, QueueInvariant, PTL

\* No period is charged before it ended: a charge has a job, and a job an ended period.
THEOREM JobIdsWaitForTheEnd == QueueOnly => (ServiceSafety => []BilledOnlyWhenDue)
<1> SUFFICES ASSUME QueueOnly PROVE ServiceSafety => []BilledOnlyWhenDue
  OBVIOUS
<1>1. ServiceInv /\ QueueInv => BilledOnlyWhenDue
  <2> SUFFICES ASSUME ServiceInv, QueueInv, NEW s \in Subs, NEW e \in Dates, charges[s][e] > 0
               PROVE  e <= now
    BY DEF BilledOnlyWhenDue
  <2>1. Sent(s, e) # 0
    <3>1. charges[s][e] \in Nat /\ adrift[s][e] \in Nat
      BY DEF ServiceInv, ServiceTypeOK, TypeOK, CycleTypeOK
    <3>. QED
      BY <3>1, SMT DEF Sent
  <2>. QED
    BY <2>1 DEF QueueInv, JobsCurrent
<1>. QED
  BY <1>1, QueueInvariant, PTL

\* A subscription's periods only move forward: a call still in progress advances the
\* period it was started for, never one that was advanced since.
THEOREM JobIdsKeepOrder == QueueOnly => (ServiceSafety => PeriodsInOrder)
<1> SUFFICES ASSUME QueueOnly PROVE ServiceSafety => PeriodsInOrder
  OBVIOUS
<1>1. /\ ServiceInv /\ RowsExist /\ QueueInv /\ (ServiceInv /\ RowsExist /\ QueueInv)'
      /\ [ServiceNext]_serviceVars
      => [\A s \in Subs : subs'[s].start >= subs[s].start]_serviceVars
  BY NextQueue
<1>. QED
  BY <1>1, QueueInvariant, PTL DEF ServiceSafety, PeriodsInOrder

-----------------------------------------------------------------------------
(* The books: payments against charges, jobs against retry counts.         *)

\* The row of a call on its way to the contract is not paid; one that is about to insert
\* its row finds none.
RowsOpen ==
  \A c \in Cycles : /\ cycles[c].pc \in LivePcs => Row(c) # "SUCCESS"
                    /\ At(c, "create") => Row(c) = "NONE"

\* Every step but those of a call's own code leaves the payments and the calls as they
\* are, apart from calls that begin or have ended.
LEMMA StepsAside ==
  ASSUME QueueOnly, ServiceInv, [ServiceNext]_serviceVars, \A c \in Cycles : ~Working(c)
  PROVE  /\ UNCHANGED payments
         /\ UNCHANGED <<charges, adrift>> \/ Settling
         /\ faults' = faults \/ Fault
         /\ \A c \in Cycles :
              \/ cycles'[c] = cycles[c]
              \/ /\ cycles[c].pc \in {"idle", "returned", "threw"}
                 /\ cycles'[c].pc \in {"idle", "returned", "find"}
<1>. CycleTypeOK
  BY DEF ServiceInv, ServiceTypeOK, TypeOK
<1>. DEFINE Aside ==
       /\ UNCHANGED payments
       /\ UNCHANGED <<charges, adrift>> \/ Settling
       /\ faults' = faults \/ Fault
       /\ \A c \in Cycles :
            \/ cycles'[c] = cycles[c]
            \/ /\ cycles[c].pc \in {"idle", "returned", "threw"}
               /\ cycles'[c].pc \in {"idle", "returned", "find"}
<1>1. ASSUME NEW t \in Sweepers, ReadDue(t) \/ AddJob(t) PROVE Aside
  BY <1>1 DEF ReadDue, AddJob, vars
<1>2. ASSUME NEW t \in Sweepers, BeginSweep(t) \/ SweepOn(t) \/ AbortTick(t) PROVE Aside
  BY <1>2 DEF BeginSweep, SweepOn, AbortTick, FindExpired, CancelExpired, EmitCancelled,
              AbortSweep, vars, cycleVars, tables
<1>3. ASSUME NEW j \in JobIds, RecoverJob(j) \/ Evict(j) PROVE Aside
  BY <1>3 DEF RecoverJob, Evict, vars
<1>4. ASSUME NEW c, Finish(c) PROVE Aside
  BY <1>4 DEF Finish, tables, CycleTypeOK, IdleCycle
<1>5. ASSUME NEW j \in JobIds, FinishJob(j) PROVE Aside
  BY <1>4, <1>5 DEF FinishJob
<1>6. ASSUME NEW j \in JobIds, NEW c \in Cycles, TakeJob(j, c) PROVE Aside
  <2>1. UNCHANGED <<payments, charges, adrift, faults>> /\ cycles[c].pc = "idle"
    BY <1>6 DEF TakeJob, Start, tables, At
  <2>. DEFINE sub == jobs[j].sub
              pc == IF subs[sub].status \in {"CANCELLED", "EXPIRED"} THEN "returned" ELSE "find"
              call == [pc |-> pc, sub |-> sub, end |-> subs[sub].end, retry |-> subs[sub].retry]
  <2>2. cycles' = [cycles EXCEPT ![c] = call] /\ call.pc = pc
    BY <1>6 DEF TakeJob, Start
  <2>3. cycles'[c].pc \in {"returned", "find"} /\ \A b \in Cycles \ {c} : cycles'[b] = cycles[b]
    <3>. HIDE DEF call
    <3>. QED
      BY <2>2 DEF CycleTypeOK
  <2>4. \A b \in Cycles :
          \/ cycles'[b] = cycles[b]
          \/ cycles[b].pc = "idle" /\ cycles'[b].pc \in {"returned", "find"}
    BY <2>1, <2>3
  <2>5. UNCHANGED <<payments, charges, adrift, faults>>
    BY <2>1
  <2>. QED
    BY <2>4, <2>5
<1>7. ASSUME NEW m \in Manual PROVE FALSE
  BY <1>7 DEF QueueOnly, SchedulerOnly
<1>8. ASSUME NEW c \in Cycles, CrashWorker(c) \/ RunInline(c) PROVE Aside
  BY <1>4, <1>8 DEF CrashWorker, RunInline, Crash, QueueOnly, SchedulerOnly
<1>9. CASE Serving
  BY <1>9 DEF Serving, ApiStep, CreateSubscription, ReadForUpdate, CancelNow, CancelAtEnd, Pause,
              Resume, Reply, cycleVars, tables
<1>10. CASE Settling
  BY <1>10 DEF Settling, ChainStep, Land, Lapse, tables
<1>11. CASE Passing \/ UNCHANGED serviceVars
  BY <1>11 DEF Passing, serviceVars, vars, cycleVars, tables
<1>12. Aside
  BY <1>1, <1>2, <1>3, <1>5, <1>6, <1>7, <1>8, <1>9, <1>10, <1>11 DEF ServiceNext
<1>. QED
  BY <1>12

\* What a step of a call leaves in its row, where it goes on to pc.
Leaves(c, pc) ==
  LET row == payments'[Sub(c)][End(c)] IN
  /\ pc \in LivePcs => row # "SUCCESS"
  /\ pc = "create" => row = "NONE"
  /\ Row(c) = "SUCCESS" => row = "SUCCESS"

LEMMA CallWrites ==
  ASSUME TypeOK, RowsOpen, NEW c \in Cycles, CycleStep(c) \/ CycleFault(c)
  PROVE  /\ \A s \in Subs, e \in Dates : s # Sub(c) \/ e # End(c) =>
              \/ payments'[s][e] = payments[s][e]
              \/ payments[s][e] = "FAILED" /\ payments'[s][e] = "RETRYING"
         /\ \E pc : Goto(c, pc) /\ Leaves(c, pc)
         /\ cycles[c].pc \in OpenPcs
<1>. TablesTypeOK /\ CycleTypeOK
  BY DEF TypeOK
<1>r. /\ cycles[c].pc \in LivePcs => Row(c) # "SUCCESS"
      /\ At(c, "create") => Row(c) = "NONE"
  BY DEF RowsOpen
<1>. DEFINE Others == \A s \in Subs, e \in Dates : s # Sub(c) \/ e # End(c) =>
              \/ payments'[s][e] = payments[s][e]
              \/ payments[s][e] = "FAILED" /\ payments'[s][e] = "RETRYING"
<1>o. cycles[c].pc \in OpenPcs
  BY DEF CycleStep, CycleFault, FindPayment, CreatePayment, Dispatch, MarkMock, MarkProcessing,
         InvokePaid, InvokeFailed, InvokeError, InvokeLate, InvokeUnread, RecordPaid,
         RecordFailure, Advance, Emit, EnterGrace, MarkRetrying, StoreRetry, Reject, At, OpenPcs,
         LivePcs
<1>. SUFFICES Others /\ \E pc : Goto(c, pc) /\ Leaves(c, pc)
  BY <1>o
<1>1. ASSUME NEW pc, Goto(c, pc), UNCHANGED payments,
             pc \in LivePcs => Row(c) # "SUCCESS", pc = "create" => Row(c) = "NONE"
      PROVE  Others /\ \E x : Goto(c, x) /\ Leaves(c, x)
  <2>1. Leaves(c, pc)
    BY <1>1 DEF Leaves, Row
  <2>. QED
    BY <1>1, <2>1
<1>2. ASSUME NEW pc, Goto(c, pc), NEW st, SetRow(c, st), cycles[c].pc \in OpenPcs,
             pc \notin LivePcs \/ st # "SUCCESS", pc # "create",
             st # "SUCCESS" => Row(c) # "SUCCESS"
      PROVE  Others /\ \E x : Goto(c, x) /\ Leaves(c, x)
  <2>1. payments'[Sub(c)][End(c)] = st /\ Others
    BY <1>2, RowSet
  <2>2. Leaves(c, pc)
    BY <1>2, <2>1 DEF Leaves
  <2>. QED
    BY <1>2, <2>1, <2>2
<1>3. CASE FindPayment(c)
  <2>. DEFINE next == CASE Row(c) = "SUCCESS" -> "advanceOnly"
                        [] Row(c) = "NONE"    -> "create"
                        [] OTHER              -> "dispatch"
  <2>1. next \in {"advanceOnly", "create", "dispatch"} /\ (next = "create" => Row(c) = "NONE")
    BY Zenon
  <2>2. Goto(c, next)
    BY <1>3 DEF FindPayment
  <2>. HIDE DEF next
  <2>3. UNCHANGED payments
    BY <1>3 DEF FindPayment, tables
  <2>. QED
    BY <1>1, <2>1, <2>2, <2>3 DEF LivePcs
<1>4. CASE CreatePayment(c)
  BY <1>1, <1>2, <1>4, SMT DEF CreatePayment, At, OpenPcs, LivePcs
<1>5. CASE Dispatch(c)
  <2>1. CASE Row(c) = "SUCCESS"
    <3>1. PICK pc \in {"failed", "advance"} : Goto(c, pc)
      BY <1>5, <2>1 DEF Dispatch, Rail
    <3>. QED
      BY <1>1, <1>5, <3>1 DEF Dispatch, tables, LivePcs
  <2>2. CASE Row(c) # "SUCCESS"
    <3>1. PICK pc \in {"failed", "mock", "processing"} : Goto(c, pc)
      BY <1>5, <2>2 DEF Dispatch, Rail
    <3>. QED
      BY <1>1, <1>5, <2>2, <3>1 DEF Dispatch, tables
  <2>. QED
    BY <2>1, <2>2
<1>6. CASE MarkMock(c) \/ RecordPaid(c)
  BY <1>2, <1>6 DEF MarkMock, RecordPaid, At, OpenPcs, LivePcs
<1>7. CASE MarkProcessing(c)
  BY <1>2, <1>7, <1>r DEF MarkProcessing, At, OpenPcs, LivePcs
<1>8. CASE InvokePaid(c) \/ InvokeFailed(c) \/ InvokeError(c) \/ InvokeLate(c) \/ InvokeUnread(c)
  <2>1. PICK pc \in {"recordPaid", "recordFailed", "recordError"} : Goto(c, pc)
    BY <1>8 DEF InvokePaid, InvokeFailed, InvokeError, InvokeLate, InvokeUnread
  <2>2. Row(c) # "SUCCESS" /\ UNCHANGED payments
    BY <1>8, <1>r DEF InvokePaid, InvokeFailed, InvokeError, InvokeLate, InvokeUnread, tables, At,
                      LivePcs
  <2>. QED
    BY <1>1, <2>1, <2>2
<1>9. CASE RecordFailure(c)
  BY <1>2, <1>9, <1>r DEF RecordFailure, At, OpenPcs, LivePcs
<1>10. CASE Advance(c) \/ Emit(c) \/ EnterGrace(c) \/ StoreRetry(c)
  <2>1. PICK pc \in {"emitSuccess", "returned", "emitFailed"} : Goto(c, pc)
    BY <1>10 DEF Advance, Emit, EnterGrace, StoreRetry
  <2>2. UNCHANGED payments
    BY <1>10 DEF Advance, Emit, EnterGrace, StoreRetry, tables
  <2>. QED
    BY <1>1, <2>1, <2>2 DEF LivePcs
<1>11. CASE MarkRetrying(c)
  <2>1. \A s \in Subs, e \in Dates :
          \/ payments'[s][e] = payments[s][e]
          \/ payments[s][e] = "FAILED" /\ payments'[s][e] = "RETRYING"
    BY <1>11, RetryingSet
  <2>2. Sub(c) \in Subs /\ End(c) \in Dates
    BY <1>11, OpenCycle DEF MarkRetrying, At, OpenPcs
  <2>3. Goto(c, "storeRetry") /\ Leaves(c, "storeRetry")
    BY <1>11, <2>1, <2>2 DEF MarkRetrying, Leaves, Row, LivePcs
  <2>. QED
    BY <2>1, <2>3
<1>12. CASE Reject(c)
  <2>1. Goto(c, Catch(cycles[c].pc)) /\ UNCHANGED payments
    BY <1>12 DEF Reject, tables
  <2>2. /\ Catch(cycles[c].pc) \in {"recordError", "failed", "threw"}
        /\ Catch(cycles[c].pc) = "recordError" => cycles[c].pc \in LivePcs
    BY Zenon DEF Catch, LivePcs
  <2>. QED
    BY <1>1, <1>r, <2>1, <2>2 DEF LivePcs
<1>. QED
  BY <1>3, <1>4, <1>5, <1>6, <1>7, <1>8, <1>9, <1>10, <1>11, <1>12 DEF CycleStep, CycleFault

\* What a call found of its row stays true: nobody else writes it.
LEMMA NextRowsOpen ==
  ASSUME QueueOnly, ServiceInv, QueueInv, RowsOpen, [ServiceNext]_serviceVars
  PROVE  /\ RowsOpen'
         /\ \A s \in Subs, e \in Dates :
              payments[s][e] = "SUCCESS" => payments'[s][e] = "SUCCESS"
<1>. TypeOK /\ CycleTypeOK
  BY DEF ServiceInv, ServiceTypeOK, TypeOK
<1>1. ASSUME NEW c \in Cycles, Working(c)
      PROVE  /\ RowsOpen'
             /\ \A s \in Subs, e \in Dates :
                  payments[s][e] = "SUCCESS" => payments'[s][e] = "SUCCESS"
  <2>1. CycleStep(c) \/ CycleFault(c)
    BY <1>1 DEF Working
  <2>2. \A s \in Subs, e \in Dates : s # Sub(c) \/ e # End(c) =>
          \/ payments'[s][e] = payments[s][e]
          \/ payments[s][e] = "FAILED" /\ payments'[s][e] = "RETRYING"
    BY <2>1, CallWrites
  <2>3. PICK pc : Goto(c, pc) /\ Leaves(c, pc)
    BY <2>1, CallWrites
  <2>4. /\ cycles'[c].pc = pc /\ Sub(c)' = Sub(c) /\ End(c)' = End(c)
        /\ \A d \in Cycles \ {c} : cycles'[d] = cycles[d]
    BY <2>3, Gone DEF Sub, End
  <2>5. ASSUME NEW d \in Cycles \ {c}, cycles[d].pc # "idle", Row(d) # "SUCCESS"
        PROVE  /\ Row(d)' # "SUCCESS"
               /\ Row(d) = "NONE" => Row(d)' = "NONE"
    <3>1. cycles[c].pc # "idle"
      BY <2>1, CallWrites DEF OpenPcs, LivePcs
    <3>2. /\ Sub(d) \in Subs /\ End(d) \in Dates
          /\ Sub(d) # Sub(c) \/ End(d) # End(c)
      BY <2>5, <3>1, QueueTypes DEF QueueInv, CallsOwned, At
    <3>3. Row(d)' = payments'[Sub(d)][End(d)]
      BY <2>4 DEF Row, Sub, End
    <3>. QED
      BY <2>2, <2>5, <3>2, <3>3 DEF Row
  <2>6. RowsOpen'
    <3> SUFFICES ASSUME NEW d \in Cycles
          PROVE  /\ cycles'[d].pc \in LivePcs => Row(d)' # "SUCCESS"
                 /\ cycles'[d].pc = "create" => Row(d)' = "NONE"
      BY DEF RowsOpen, At, LivePcs
    <3>1. CASE d = c
      <4>1. Row(c)' = payments'[Sub(c)][End(c)]
        BY <2>4 DEF Row
      <4>. QED
        BY <2>3, <2>4, <3>1, <4>1 DEF Leaves
    <3>2. CASE d # c
      BY <2>4, <2>5, <3>2 DEF RowsOpen, At, LivePcs
    <3>. QED
      BY <3>1, <3>2
  <2>7. ASSUME NEW s \in Subs, NEW e \in Dates, payments[s][e] = "SUCCESS"
        PROVE  payments'[s][e] = "SUCCESS"
    BY <2>2, <2>3, <2>7 DEF Leaves, Row
  <2>. QED
    BY <2>6, <2>7
<1>2. CASE \A c \in Cycles : ~Working(c)
  <2>1. /\ UNCHANGED payments
        /\ \A c \in Cycles :
             \/ cycles'[c] = cycles[c]
             \/ cycles'[c].pc \in {"idle", "returned", "find"}
    BY <1>2, StepsAside
  <2>2. RowsOpen'
    BY <2>1 DEF RowsOpen, At, Row, Sub, End, LivePcs
  <2>. QED
    BY <2>1, <2>2
<1>. QED
  BY <1>1, <1>2

LEMMA InitRowsOpen == ServiceInit => RowsOpen
BY SMT DEF ServiceInit, Init, CycleInit, IdleCycle, RowsOpen, At, LivePcs

\* A payment recorded as SUCCESS is not written over: the call that would is on a row
\* that is not paid, and stays the only one on it until it is done.
THEOREM JobIdsKeepTheBooks == QueueOnly => (ServiceSafety => PaidStaysBooked)
<1> SUFFICES ASSUME QueueOnly PROVE ServiceSafety => PaidStaysBooked
  OBVIOUS
<1>1. ServiceInit => RowsOpen
  BY InitRowsOpen
<1>2. /\ RowsOpen /\ ServiceInv /\ RowsExist /\ QueueInv
      /\ [ServiceNext]_serviceVars
      => /\ RowsOpen'
         /\ [\A s \in Subs, e \in Dates :
               payments[s][e] = "SUCCESS" => payments'[s][e] = "SUCCESS"]_serviceVars
  BY NextRowsOpen
<1>. QED
  BY <1>1, <1>2, QueueInvariant, PTL DEF ServiceSafety, PaidStaysBooked

\* A transaction of period e of s was sent and the books do not say so, or they do and
\* none paid.
Doubtful(s, e) ==
  /\ Rail(s) = "soroban"
  /\ \/ Sent(s, e) > 0 /\ ~Recorded(s, e)
     \/ charges[s][e] = 0 /\ Recorded(s, e)

Doubts == {p \in Subs \X Dates : Doubtful(p[1], p[2])}
DoubtsInv == IsFiniteSet(Doubts) /\ Cardinality(Doubts) <= faults

\* A call's step says nothing of the other periods.
LEMMA OthersKeepDoubts ==
  ASSUME TypeOK, RowsOpen, NEW c \in Cycles, Working(c),
         NEW s \in Subs, NEW e \in Dates, s # Sub(c) \/ e # End(c), Doubtful(s, e)'
  PROVE  Doubtful(s, e)
<1>. CycleTypeOK
  BY DEF TypeOK
<1>1. CycleStep(c) \/ CycleFault(c)
  BY DEF Working
<1>2. /\ payments'[s][e] = "SUCCESS" <=> payments[s][e] = "SUCCESS"
      /\ \E pc : Goto(c, pc)
      /\ cycles[c].pc \in OpenPcs
  BY <1>1, CallWrites
<1>3. adrift'[s][e] = adrift[s][e]
  <2>1. Billing(c)
    BY <1>1 DEF Billing, Working
  <2>. QED
    BY <2>1, AdriftSet
<1>4. charges'[s][e] = charges[s][e]
  <2>1. CASE InvokePaid(c)
    BY <1>2, <2>1, ChargeSet DEF InvokePaid
  <2>2. CASE ~InvokePaid(c)
    BY <1>1, <2>2 DEF CycleStep, CycleFault, FindPayment, CreatePayment, Dispatch, MarkMock,
       MarkProcessing, InvokeFailed, InvokeError, InvokeLate, InvokeUnread, RecordPaid,
       RecordFailure, Advance, Emit, EnterGrace, MarkRetrying, StoreRetry, Reject
  <2>. QED
    BY <2>1, <2>2
<1>5. Recorded(s, e)' <=> Recorded(s, e)
  <2>1. /\ cycles'[c].sub = Sub(c) /\ cycles'[c].end = End(c)
        /\ \A d \in Cycles \ {c} : cycles'[d] = cycles[d]
    BY <1>2, Gone DEF Sub, End
  <2>2. \A d \in Cycles :
          /\ cycles'[d].pc = "recordPaid" /\ cycles'[d].sub = s /\ cycles'[d].end = e
             <=> At(d, "recordPaid") /\ Sub(d) = s /\ End(d) = e
    BY <2>1 DEF At, Sub, End
  <2>. QED
    BY <1>2, <2>2 DEF Recorded, At, Sub, End
<1>. QED
  BY <1>3, <1>4, <1>5 DEF Doubtful, Sent, Rail

\* Neither does it bring a doubt about its own, unless it fails: a charge is recorded by
\* the call that made it, which looks after its payment until it has.
LEMMA CallKeepsDoubts ==
  ASSUME TypeOK, RailsKept, RowsOpen, NEW c \in Cycles, CycleStep(c),
         NEW s \in Subs, NEW e \in Dates, s = Sub(c), e = End(c),
         payments[s][e] = "SUCCESS" => payments'[s][e] = "SUCCESS", Doubtful(s, e)'
  PROVE  Doubtful(s, e)
<1>. TablesTypeOK /\ CycleTypeOK
  BY DEF TypeOK
<1>r. Rail(s) = "soroban" /\ Rail(s) # "test"
  BY DEF Doubtful, Rail
<1>a. UNCHANGED adrift
  BY DEF CycleStep
<1>1. ASSUME NEW pc, Goto(c, pc), pc # "recordPaid", ~At(c, "recordPaid"), UNCHANGED charges,
             payments'[s][e] = "SUCCESS" => payments[s][e] = "SUCCESS"
      PROVE  Doubtful(s, e)
  <2>1. /\ cycles'[c].pc = pc
        /\ \A d \in Cycles \ {c} : cycles'[d] = cycles[d]
    BY <1>1, Gone
  <2>2. Recorded(s, e)' <=> Recorded(s, e)
    BY <1>1, <2>1 DEF Recorded, At, Sub, End
  <2>. QED
    BY <1>1, <1>a, <2>2 DEF Doubtful, Sent, Rail
<1>2. ASSUME NEW pc, Goto(c, pc), pc # "recordPaid", ~At(c, "recordPaid"), UNCHANGED charges,
             cycles[c].pc \in OpenPcs, NEW st, SetRow(c, st), st # "SUCCESS"
      PROVE  Doubtful(s, e)
  <2>1. payments'[s][e] = st
    BY <1>2, RowSet
  <2>. QED
    BY <1>1, <1>2, <2>1
<1>3. CASE FindPayment(c)
  <2>. DEFINE next == CASE Row(c) = "SUCCESS" -> "advanceOnly"
                        [] Row(c) = "NONE"    -> "create"
                        [] OTHER              -> "dispatch"
  <2>1. next # "recordPaid"
    BY Zenon
  <2>2. Goto(c, next) /\ ~At(c, "recordPaid") /\ UNCHANGED <<charges, payments>>
    BY <1>3 DEF FindPayment, tables, At
  <2>. HIDE DEF next
  <2>. QED
    BY <1>1, <2>1, <2>2
<1>4. CASE CreatePayment(c)
  BY <1>1, <1>2, <1>4 DEF CreatePayment, At, OpenPcs
<1>5. CASE Dispatch(c)
  <2>1. PICK pc \in {"failed", "advance", "mock", "processing"} : Goto(c, pc)
    BY <1>5 DEF Dispatch, Rail
  <2>. QED
    BY <1>1, <1>5, <2>1 DEF Dispatch, At, tables
<1>6. CASE MarkMock(c)
  BY <1>6, <1>r DEF MarkMock, RailsKept
<1>7. CASE MarkProcessing(c) \/ RecordFailure(c)
  BY <1>2, <1>7 DEF MarkProcessing, RecordFailure, At, OpenPcs, LivePcs
<1>8. CASE InvokePaid(c)
  <2>1. cycles'[c].pc = "recordPaid" /\ cycles'[c].sub = s /\ cycles'[c].end = e
    BY <1>8, Gone DEF InvokePaid, Sub, End
  <2>2. charges'[s][e] # 0
    <3>1. charges'[s][e] > 0
      BY <1>8, ChargeSet DEF InvokePaid, At, OpenPcs, LivePcs
    <3>. QED
      BY <3>1, SMT
  <2>. QED
    BY <2>1, <2>2 DEF Doubtful, Recorded, At, Sub, End
<1>9. CASE InvokeFailed(c) \/ InvokeError(c)
  BY <1>1, <1>9 DEF InvokeFailed, InvokeError, At, tables
<1>10. CASE RecordPaid(c)
  <2>1. payments'[s][e] = "SUCCESS"
    BY <1>10, RowSet DEF RecordPaid, At, OpenPcs, LivePcs
  <2>2. Recorded(s, e) /\ Recorded(s, e)' /\ UNCHANGED charges
    BY <1>10, <2>1 DEF Recorded, RecordPaid
  <2>. QED
    BY <1>a, <2>2 DEF Doubtful, Sent, Rail
<1>11. CASE Advance(c) \/ Emit(c) \/ EnterGrace(c) \/ StoreRetry(c)
  <2>1. PICK pc \in {"emitSuccess", "returned", "emitFailed"} : Goto(c, pc)
    BY <1>11 DEF Advance, Emit, EnterGrace, StoreRetry
  <2>. QED
    BY <1>1, <1>11, <2>1 DEF Advance, Emit, EnterGrace, StoreRetry, At, tables
<1>12. CASE MarkRetrying(c)
  <2>1. payments'[s][e] = payments[s][e] \/ payments'[s][e] = "RETRYING"
    BY <1>12, RetryingSet
  <2>. QED
    BY <1>1, <1>12, <2>1 DEF MarkRetrying, At
<1>. QED
  BY <1>3, <1>4, <1>5, <1>6, <1>7, <1>8, <1>9, <1>10, <1>11, <1>12 DEF CycleStep

\* Nor do the other steps; what the network carries out, or drops, was sent before.
LEMMA AsideKeepsDoubts ==
  ASSUME QueueOnly, ServiceInv, [ServiceNext]_serviceVars, \A c \in Cycles : ~Working(c),
         NEW s \in Subs, NEW e \in Dates, Doubtful(s, e)'
  PROVE  Doubtful(s, e)
<1>. CycleTypeOK
  BY DEF ServiceInv, ServiceTypeOK, TypeOK
<1>1. Recorded(s, e)' <=> Recorded(s, e)
  <2>1. /\ UNCHANGED payments
        /\ \A c \in Cycles :
             \/ cycles'[c] = cycles[c]
             \/ cycles'[c].pc # "recordPaid" /\ cycles[c].pc # "recordPaid"
    BY StepsAside
  <2>. QED
    BY <2>1 DEF Recorded, At, Sub, End
<1>2. CASE UNCHANGED <<charges, adrift>>
  BY <1>1, <1>2 DEF Doubtful, Sent, Rail
<1>3. CASE Settling
  <2>1. PICK x \in Subs, d \in Dates : Land(x, d) \/ Lapse(x, d)
    BY <1>3 DEF Settling, ChainStep
  <2>2. /\ charges \in [Subs -> [Dates -> Nat]] /\ adrift \in [Subs -> [Dates -> Nat]]
        /\ \/ /\ charges' = [charges EXCEPT ![x][d] = @ + 1]
              /\ adrift' = [adrift EXCEPT ![x][d] = @ - 1]
           \/ charges' = charges /\ adrift' = [adrift EXCEPT ![x][d] = @ - 1]
    BY <2>1 DEF Land, Lapse, CycleTypeOK
  <2>3. charges[s][e] \in Nat /\ adrift[s][e] \in Nat
    BY <2>2
  <2>4. CASE s = x /\ e = d
    <3>1. /\ adrift'[s][e] = adrift[s][e] - 1
          /\ charges'[s][e] \in {charges[s][e], charges[s][e] + 1}
      BY <2>2, <2>4
    <3>. QED
      BY <1>1, <2>3, <3>1, SMT DEF Doubtful, Sent, Rail
  <2>5. CASE s # x \/ e # d
    <3>1. adrift'[s][e] = adrift[s][e] /\ charges'[s][e] = charges[s][e]
      BY <2>2, <2>5
    <3>. QED
      BY <1>1, <3>1 DEF Doubtful, Sent, Rail
  <2>. QED
    BY <2>4, <2>5
<1>. QED
  BY <1>2, <1>3, StepsAside

LEMMA NextDoubts ==
  ASSUME QueueOnly, ServiceInv, QueueInv, RailsKept, RowsOpen, DoubtsInv,
         [ServiceNext]_serviceVars
  PROVE  DoubtsInv'
<1>. TypeOK
  BY DEF ServiceInv, ServiceTypeOK
<1>t. faults \in Nat /\ IsFiniteSet(Doubts) /\ Cardinality(Doubts) \in Nat
      /\ Cardinality(Doubts) <= faults
  BY QueueTypes, FS_CardinalityType DEF DoubtsInv
<1>1. ASSUME NEW A, A \subseteq Doubts PROVE IsFiniteSet(A) /\ Cardinality(A) <= faults
  <2>1. IsFiniteSet(A) /\ Cardinality(A) <= Cardinality(Doubts) /\ Cardinality(A) \in Nat
    BY <1>1, <1>t, FS_Subset, FS_CardinalityType
  <2>. QED
    BY <1>t, <2>1, SMT
<1>2. ASSUME NEW A, NEW p, A \subseteq Doubts \cup {p}
      PROVE  IsFiniteSet(A) /\ Cardinality(A) <= faults + 1
  <2>1. /\ IsFiniteSet(Doubts \cup {p})
        /\ Cardinality(Doubts \cup {p}) \in {Cardinality(Doubts), Cardinality(Doubts) + 1}
    BY <1>t, FS_AddElement, Zenon
  <2>2. /\ IsFiniteSet(A) /\ Cardinality(A) \in Nat
        /\ Cardinality(A) <= Cardinality(Doubts \cup {p})
    BY <1>2, <2>1, FS_Subset, FS_CardinalityType
  <2>. QED
    BY <1>t, <2>1, <2>2, SMT
<1>3. ASSUME NEW c \in Cycles, Working(c), CycleFault(c) PROVE DoubtsInv'
  <2>1. Doubts' \subseteq Doubts \cup {<<Sub(c), End(c)>>}
    BY <1>3, OthersKeepDoubts DEF Doubts
  <2>2. faults' = faults + 1
    BY <1>3 DEF CycleFault, InvokeLate, InvokeUnread, Reject, Fault
  <2>. QED
    BY <1>2, <2>1, <2>2 DEF DoubtsInv
<1>4. ASSUME NEW c \in Cycles, Working(c), CycleStep(c) PROVE DoubtsInv'
  <2>1. \A s \in Subs, e \in Dates :
          payments[s][e] = "SUCCESS" => payments'[s][e] = "SUCCESS"
    BY NextRowsOpen
  <2>2. Doubts' \subseteq Doubts
    BY <1>4, <2>1, OthersKeepDoubts, CallKeepsDoubts DEF Doubts
  <2>3. faults' = faults
    BY <1>4 DEF CycleStep, FindPayment, CreatePayment, Dispatch, MarkMock, MarkProcessing,
                InvokePaid, InvokeFailed, InvokeError, RecordPaid, RecordFailure, Advance, Emit,
                EnterGrace, MarkRetrying, StoreRetry
  <2>. QED
    BY <1>1, <2>2, <2>3 DEF DoubtsInv
<1>5. CASE \A c \in Cycles : ~Working(c)
  <2>1. Doubts' \subseteq Doubts
    BY <1>5, AsideKeepsDoubts DEF Doubts
  <2>2. faults' = faults \/ faults' = faults + 1
    BY <1>5, StepsAside DEF Fault
  <2>3. IsFiniteSet(Doubts') /\ Cardinality(Doubts') <= faults /\ Cardinality(Doubts') \in Nat
    BY <1>1, <2>1, FS_CardinalityType
  <2>. QED
    BY <1>t, <2>2, <2>3, SMT DEF DoubtsInv
<1>. QED
  BY <1>3, <1>4, <1>5 DEF Working

LEMMA InitDoubts == ServiceInit => DoubtsInv
<1> SUFFICES ASSUME ServiceInit PROVE DoubtsInv
  OBVIOUS
<1>1. /\ \A s \in Subs, e \in Dates : Sent(s, e) = 0 /\ payments[s][e] = "NONE"
      /\ \A c \in Cycles : cycles[c].pc = "idle"
      /\ faults = 0
  BY SMT DEF ServiceInit, Init, TablesInit, CycleInit, IdleCycle, Sent
<1>2. \A s \in Subs, e \in Dates : ~Recorded(s, e) /\ ~(Sent(s, e) > 0)
  BY <1>1, SMT DEF Recorded, At
<1>3. Doubts = {}
  BY <1>2 DEF Doubts, Doubtful
<1>. QED
  BY <1>1, <1>3, FS_EmptySet, SMT DEF DoubtsInv

\* The books and the money disagree on at most as many periods as things failed: no call
\* is on the row of another, so what a call sends it records, unless it fails.
THEOREM JobIdsBookWhatIsPaid == QueueOnly => (ServiceSafety => []BooksNeedFaults)
<1> SUFFICES ASSUME QueueOnly PROVE ServiceSafety => []BooksNeedFaults
  OBVIOUS
<1>. DEFINE Inv == RowsOpen /\ TraceInv /\ SentIsWritten /\ DoubtsInv
<1>1. ServiceInit => Inv
  BY InitRowsOpen, InitTrace, InitDoubts DEF ServiceInit
<1>2. Inv /\ ServiceInv /\ RowsExist /\ QueueInv /\ [ServiceNext]_serviceVars => Inv'
  BY NextRowsOpen, NextDoubts, StepOfEngine, NextTrace
     DEF ServiceInv, ServiceTypeOK, TraceInv
<1>3. Inv /\ ServiceInv => BooksNeedFaults
  <2> SUFFICES ASSUME Inv, ServiceInv PROVE Cardinality(Disputed) <= faults
    BY DEF BooksNeedFaults
  <2>1. ASSUME NEW s \in Subs, NEW e \in Dates, PaidFor(s, e) # Recorded(s, e)
        PROVE  Doubtful(s, e)
    <3>1. charges[s][e] \in Nat /\ adrift[s][e] \in Nat
      BY DEF ServiceInv, ServiceTypeOK, TypeOK, CycleTypeOK
    <3>2. CASE Rail(s) = "soroban"
      <4>1. (charges[s][e] > 0) # Recorded(s, e)
        BY <2>1, <3>2 DEF PaidFor
      <4>2. CASE charges[s][e] > 0
        <5>1. Sent(s, e) > 0
          BY <3>1, <4>2, SMT DEF Sent
        <5>2. ~Recorded(s, e)
          BY <4>1, <4>2 DEF Recorded
        <5>. QED
          BY <3>2, <5>1, <5>2 DEF Doubtful
      <4>3. CASE ~(charges[s][e] > 0)
        <5>1. charges[s][e] = 0
          BY <3>1, <4>3, SMT
        <5>2. (charges[s][e] > 0) = FALSE
          BY <3>1, <4>3, SMT
        <5>3. Recorded(s, e)
          BY <4>1, <5>2, Zenon DEF Recorded
        <5>. QED
          BY <3>2, <5>1, <5>3 DEF Doubtful
      <4>. QED
        BY <4>2, <4>3
    <3>3. CASE Rail(s) # "soroban"
      <4>1. \A c \in Cycles : At(c, "recordPaid") => Sub(c) # s
        BY <3>3 DEF TraceInv, RailsKept, LivePcs, At
      <4>. QED
        BY <2>1, <3>3, <4>1 DEF PaidFor, Recorded
    <3>. QED
      BY <3>2, <3>3
  <2>2. Disputed \subseteq Doubts
    BY <2>1 DEF Disputed, Doubts
  <2>3. /\ Cardinality(Disputed) \in Nat /\ Cardinality(Doubts) \in Nat
        /\ Cardinality(Disputed) <= Cardinality(Doubts)
    BY <2>2, FS_Subset, FS_CardinalityType DEF DoubtsInv
  <2>. QED
    BY <2>3, QueueTypes, SMT DEF DoubtsInv
<1>. HIDE DEF Inv
<1>. QED
  BY <1>1, <1>2, <1>3, QueueInvariant, PTL DEF ServiceSafety

\* The period of s ending at e is behind it, or its failure is counted, or s is done.
Accounted(s, e) ==
  \/ subs[s].end > e
  \/ /\ subs[s].end = e
     /\ \/ subs[s].retry > 0
        \/ subs[s].status \in {"CANCELLED", "EXPIRED"}
        \/ subs[s].cancelAtEnd

\* A row that is written with its period kept loses none of the three.
LEMMA AccountedRow ==
  ASSUME TablesTypeOK, NEW x \in Subs, NEW row, subs' = [subs EXCEPT ![x] = row],
         row.end = subs[x].end,
         \/ row.retry > 0 \/ row.status = "CANCELLED" \/ row.cancelAtEnd
         \/ /\ row.retry = subs[x].retry /\ row.status = subs[x].status
            /\ row.cancelAtEnd = subs[x].cancelAtEnd,
         NEW s \in Subs, NEW e
  PROVE  subs'[s].end = subs[s].end /\ (Accounted(s, e) => Accounted(s, e)')
<1>1. CASE s = x
  <2>1. subs'[s] = row
    BY <1>1 DEF TablesTypeOK
  <2>. QED
    BY <1>1, <2>1 DEF Accounted
<1>2. CASE s # x
  <2>1. subs'[s] = subs[s]
    BY <1>2 DEF TablesTypeOK
  <2>. QED
    BY <2>1 DEF Accounted
<1>. QED
  BY <1>1, <1>2

\* What a call does to a row: it moves the period it was started for, counts a failure,
\* or leaves the rows alone.
LEMMA CallCounts ==
  ASSUME QueueOnly, ServiceInv, QueueInv, NEW c \in Cycles, Working(c)
  PROVE  \/ UNCHANGED subs /\ ~Advance(c) /\ ~EnterGrace(c) /\ ~StoreRetry(c)
         \/ /\ Advance(c)
            /\ Sub(c) \in Subs /\ End(c) \in Dates /\ subs[Sub(c)].end = End(c)
            /\ subs'[Sub(c)].end > End(c)
            /\ \A s \in Subs \ {Sub(c)} : subs'[s] = subs[s]
         \/ \E row : /\ EnterGrace(c) \/ StoreRetry(c)
                     /\ Sub(c) \in Subs /\ subs' = [subs EXCEPT ![Sub(c)] = row]
                     /\ row.end = subs[Sub(c)].end /\ row.retry > 0
<1>. TypeOK /\ TablesTypeOK /\ CycleTypeOK
  BY DEF ServiceInv, ServiceTypeOK, TypeOK
<1>1. CASE Advance(c)
  <2>1. /\ Sub(c) \in Subs /\ End(c) \in Dates
        /\ subs[Sub(c)].end = End(c)
    BY <1>1, OpenCycle DEF Advance, At, OpenPcs, QueueInv, CallsCurrent, BeforeAdvance, BeforeSend
  <2>. DEFINE row == [subs[Sub(c)] EXCEPT !.status = "ACTIVE", !.start = End(c),
                        !.end = NextPeriod(End(c)), !.retry = 0, !.grace = NoTime]
  <2>2. row.end = NextPeriod(End(c))
    BY <2>1, Zenon DEF TablesTypeOK, Subscription
  <2>3. subs' = [subs EXCEPT ![Sub(c)] = row]
    BY <1>1 DEF Advance
  <2>. HIDE DEF row
  <2>4. NextPeriod(End(c)) > End(c)
    BY <2>1, TablesAssumption, SMT DEF NextPeriod, Dates
  <2>. QED
    BY <1>1, <2>1, <2>2, <2>3, <2>4 DEF TablesTypeOK
<1>2. CASE EnterGrace(c) \/ StoreRetry(c)
  <2>1. Sub(c) \in Subs /\ cycles[c].retry \in Nat
    BY <1>2, OpenCycle DEF EnterGrace, StoreRetry, At, OpenPcs
  <2>2. Retry(c) > 0
    BY <2>1, SMT DEF Retry
  <2>3. subs[Sub(c)] \in Subscription
    BY <2>1 DEF TablesTypeOK
  <2>4. CASE EnterGrace(c)
    <3>. DEFINE row == [subs[Sub(c)] EXCEPT !.status = "PAST_DUE", !.retry = Retry(c),
                          !.grace = now + Grace]
    <3>1. row.end = subs[Sub(c)].end /\ row.retry = Retry(c)
      BY <2>3, Zenon DEF Subscription
    <3>2. subs' = [subs EXCEPT ![Sub(c)] = row]
      BY <2>4 DEF EnterGrace
    <3>. HIDE DEF row
    <3>. QED
      BY <2>1, <2>2, <2>4, <3>1, <3>2
  <2>5. CASE StoreRetry(c)
    <3>. DEFINE row == [subs[Sub(c)] EXCEPT !.retry = Retry(c)]
    <3>1. row.end = subs[Sub(c)].end /\ row.retry = Retry(c)
      BY <2>3, Zenon DEF Subscription
    <3>2. subs' = [subs EXCEPT ![Sub(c)] = row]
      BY <2>1, <2>5 DEF StoreRetry, TablesTypeOK
    <3>. HIDE DEF row
    <3>. QED
      BY <2>1, <2>2, <2>5, <3>1, <3>2
  <2>. QED
    BY <1>2, <2>4, <2>5
<1>3. CASE ~Advance(c) /\ ~EnterGrace(c) /\ ~StoreRetry(c)
  BY <1>3 DEF Working, CycleStep, CycleFault, FindPayment, CreatePayment, Dispatch, MarkMock,
     MarkProcessing, InvokePaid, InvokeFailed, InvokeError, InvokeLate, InvokeUnread, RecordPaid,
     RecordFailure, Emit, MarkRetrying, Reject, tables
<1>. QED
  BY <1>1, <1>2, <1>3

\* Periods end later and later, and what is accounted for stays so.
LEMMA AccountedStays ==
  ASSUME QueueOnly, ServiceInv, RowsExist, QueueInv, [ServiceNext]_serviceVars,
         NEW s \in Subs, Exists(s), NEW e \in Dates
  PROVE  subs'[s].end >= subs[s].end /\ (Accounted(s, e) => Accounted(s, e)')
<1>. TypeOK /\ TablesTypeOK /\ ApiTypeOK
  BY DEF ServiceInv, ServiceTypeOK, TypeOK
<1>t. subs[s].end \in Int /\ e \in Int /\ subs[s].end >= subs[s].end
  BY QueueTypes, SMT
<1>1. ASSUME NEW x \in Subs, NEW row, subs' = [subs EXCEPT ![x] = row],
             row.end = subs[x].end,
             \/ row.retry > 0 \/ row.status = "CANCELLED" \/ row.cancelAtEnd
             \/ /\ row.retry = subs[x].retry /\ row.status = subs[x].status
                /\ row.cancelAtEnd = subs[x].cancelAtEnd
      PROVE  subs'[s].end >= subs[s].end /\ (Accounted(s, e) => Accounted(s, e)')
  <2>1. subs'[s].end = subs[s].end /\ (Accounted(s, e) => Accounted(s, e)')
    BY <1>1, AccountedRow
  <2>. QED
    BY <1>t, <2>1
<1>2. CASE UNCHANGED subs
  BY <1>2, <1>t DEF Accounted
<1>3. ASSUME NEW c \in Cycles, Working(c)
      PROVE  subs'[s].end >= subs[s].end /\ (Accounted(s, e) => Accounted(s, e)')
  <2>1. CASE UNCHANGED subs
    BY <1>2, <2>1
  <2>2. CASE /\ Sub(c) \in Subs /\ End(c) \in Dates /\ subs[Sub(c)].end = End(c)
             /\ subs'[Sub(c)].end > End(c)
             /\ \A x \in Subs \ {Sub(c)} : subs'[x] = subs[x]
    <3>1. CASE s = Sub(c)
      <4>1. subs[s].end = End(c) /\ subs'[s].end > subs[s].end
        BY <2>2, <3>1
      <4>2. subs'[s].end \in Int
        BY StepOfEngine, NextTypeOK, SMT DEF TypeOK, TablesTypeOK, Subscription, Dates
      <4>3. subs'[s].end >= subs[s].end /\ (subs[s].end >= e => subs'[s].end > e)
        BY <1>t, <4>1, <4>2, SMT
      <4>4. Accounted(s, e) => subs[s].end >= e
        BY <1>t, SMT DEF Accounted
      <4>. QED
        BY <4>3, <4>4 DEF Accounted
    <3>2. CASE s # Sub(c)
      <4>1. subs'[s] = subs[s]
        BY <2>2, <3>2
      <4>. QED
        BY <1>t, <4>1 DEF Accounted
    <3>. QED
      BY <3>1, <3>2
  <2>3. CASE \E row : /\ Sub(c) \in Subs /\ subs' = [subs EXCEPT ![Sub(c)] = row]
                      /\ row.end = subs[Sub(c)].end /\ row.retry > 0
    BY <1>1, <2>3
  <2>. QED
    BY <1>3, <2>1, <2>2, <2>3, CallCounts
<1>4. ASSUME NEW w \in Sweepers, NEW x \in Subs, CancelExpired(w, x)
      PROVE  subs'[s].end >= subs[s].end /\ (Accounted(s, e) => Accounted(s, e)')
  <2>. DEFINE row == [subs[x] EXCEPT !.status = "CANCELLED"]
  <2>1. row.end = subs[x].end /\ row.status = "CANCELLED"
    BY Zenon DEF TablesTypeOK, Subscription
  <2>2. subs' = [subs EXCEPT ![x] = row]
    BY <1>4 DEF CancelExpired, TablesTypeOK
  <2>. HIDE DEF row
  <2>. QED
    BY <1>1, <2>1, <2>2
<1>5. CASE Serving
  <2>1. ASSUME NEW x \in Subs, NEW trial \in Trials, CreateSubscription(x, trial)
        PROVE  subs'[s] = subs[s]
    BY <2>1 DEF CreateSubscription, TablesTypeOK
  <2>2. ASSUME NEW r \in Requests, CancelNow(r) \/ CancelAtEnd(r) \/ Pause(r)
        PROVE  \E x \in Subs : \E row :
                 /\ subs' = [subs EXCEPT ![x] = row] /\ row.end = subs[x].end
                 /\ \/ row.status = "CANCELLED" \/ row.cancelAtEnd
                    \/ /\ row.retry = subs[x].retry /\ row.status = subs[x].status
                       /\ row.cancelAtEnd = subs[x].cancelAtEnd
    <3>1. PICK x \in Subs : x = requests[r].sub
      BY <2>2, PendingRequest DEF CancelNow, CancelAtEnd, Pause
    <3>2. subs[x] \in Subscription
      BY DEF TablesTypeOK
    <3>3. CASE CancelNow(r)
      <4>. DEFINE row == [subs[x] EXCEPT !.cancelAtEnd = FALSE, !.status = "CANCELLED"]
      <4>1. row.end = subs[x].end /\ row.status = "CANCELLED"
        BY <3>2, Zenon DEF Subscription
      <4>2. subs' = [subs EXCEPT ![x] = row]
        BY <3>1, <3>3 DEF CancelNow, Reply
      <4>. HIDE DEF row
      <4>. QED
        BY <4>1, <4>2
    <3>4. CASE CancelAtEnd(r)
      <4>. DEFINE row == [subs[x] EXCEPT !.cancelAtEnd = TRUE, !.status = requests[r].status]
      <4>1. row.end = subs[x].end /\ row.cancelAtEnd
        BY <3>2, Zenon DEF Subscription
      <4>2. subs' = [subs EXCEPT ![x] = row]
        BY <3>1, <3>4 DEF CancelAtEnd, Reply
      <4>. HIDE DEF row
      <4>. QED
        BY <4>1, <4>2
    <3>5. CASE Pause(r)
      <4>. DEFINE row == [subs[x] EXCEPT !.paused = TRUE]
      <4>1. /\ row.end = subs[x].end /\ row.retry = subs[x].retry
            /\ row.status = subs[x].status /\ row.cancelAtEnd = subs[x].cancelAtEnd
        BY <3>2, Zenon DEF Subscription
      <4>2. subs' = [subs EXCEPT ![x] = row]
        BY <3>1, <3>5 DEF Pause, Reply
      <4>. HIDE DEF row
      <4>. QED
        BY <4>1, <4>2
    <3>. QED
      BY <2>2, <3>3, <3>4, <3>5
  <2>3. ASSUME NEW r \in Requests, Resume(r) PROVE FALSE
    BY <2>3, SMT DEF QueueOnly, SchedulerOnly, Resume, Pending, ApiTypeOK, Request, NoRequest
  <2>4. CASE \E r \in Requests, op \in Ops, x \in Subs : ReadForUpdate(r, op, x)
    BY <1>2, <2>4 DEF ReadForUpdate, tables
  <2>5. CASE \E r \in Requests : CancelNow(r) \/ CancelAtEnd(r) \/ Pause(r)
    BY <1>1, <2>2, <2>5
  <2>6. CASE \E x \in Subs, trial \in Trials : CreateSubscription(x, trial)
    BY <1>t, <2>1, <2>6 DEF Accounted
  <2>. QED
    BY <1>5, <2>3, <2>4, <2>5, <2>6 DEF Serving, ApiStep
<1>6. CASE Settling \/ Passing \/ UNCHANGED serviceVars
  BY <1>2, <1>6 DEF Settling, ChainStep, Land, Lapse, Passing, serviceVars, vars, tables
<1>7. ASSUME NEW t \in Sweepers,
             ReadDue(t) \/ AddJob(t) \/ BeginSweep(t) \/ SweepOn(t) \/ AbortTick(t)
      PROVE  subs'[s].end >= subs[s].end /\ (Accounted(s, e) => Accounted(s, e)')
  <2>1. UNCHANGED subs \/ \E x \in Subs : CancelExpired(t, x)
    BY <1>7 DEF ReadDue, AddJob, BeginSweep, SweepOn, AbortTick, FindExpired, EmitCancelled,
                AbortSweep, vars, tables
  <2>. QED
    BY <1>2, <1>4, <2>1
<1>8. ASSUME NEW j \in JobIds, FinishJob(j) \/ RecoverJob(j) \/ Evict(j) PROVE UNCHANGED subs
  BY <1>8 DEF FinishJob, RecoverJob, Evict, Finish, vars, tables
<1>9. ASSUME NEW j \in JobIds, NEW c \in Cycles, TakeJob(j, c) PROVE UNCHANGED subs
  BY <1>9 DEF TakeJob, Start, tables
<1>10. ASSUME NEW c \in Cycles, CrashWorker(c) \/ RunInline(c) PROVE UNCHANGED subs
  BY <1>10 DEF CrashWorker, RunInline, Crash, Start, Finish, tables
<1>11. ASSUME NEW m \in Manual PROVE FALSE
  BY <1>11 DEF QueueOnly, SchedulerOnly
<1>. QED
  BY <1>2, <1>3, <1>5, <1>6, <1>7, <1>8, <1>9, <1>10, <1>11 DEF ServiceNext

\* What the rows, the jobs and the calls say of an attempt that has been made: a call that
\* is done has accounted for its period, one that threw was rejected and is tried again,
\* and a job that has ended leaves its period accounted for.
AccountsInv ==
  /\ faults <= MaxFaults
  /\ \A c \in Cycles : ~At(c, "idle") =>
       LET s == Sub(c)
           e == End(c)
       IN  /\ subs[s].end >= e
           /\ cycles[c].pc \in {"emitSuccess", "emitFailed", "returned"} => Accounted(s, e)
           /\ At(c, "threw") => "reject" \in FaultKinds /\ jobs[<<s, e>>].tries < faults
  /\ \A s \in Subs, e \in Dates :
       /\ jobs[<<s, e>>].tries <= faults
       /\ jobs[<<s, e>>].state \in {"completed", "failed"} => Accounted(s, e)

\* The end of a call's own work: it moved the period or counted a failure, or was
\* rejected on the way.
LEMMA CallAccounts ==
  ASSUME QueueOnly, ServiceInv, RowsExist, QueueInv, RowsOpen, AccountsInv,
         NEW c \in Cycles, Working(c), [ServiceNext]_serviceVars,
         NEW s \in Subs, s = Sub(c), NEW e \in Dates, e = End(c)
  PROVE  \E pc : /\ Goto(c, pc)
                 /\ pc \in {"emitSuccess", "emitFailed", "returned"} => Accounted(s, e)'
                 /\ pc = "threw" => "reject" \in FaultKinds /\ faults' = faults + 1
<1>. TypeOK /\ TablesTypeOK /\ CycleTypeOK
  BY DEF ServiceInv, ServiceTypeOK, TypeOK
<1>o. CycleStep(c) \/ CycleFault(c)
  BY DEF Working
<1>1. cycles[c].pc \in OpenPcs /\ Exists(s) /\ subs[s].end >= e
  BY <1>o, CallWrites DEF RowsExist, AccountsInv, At, OpenPcs, LivePcs
<1>2. CASE Advance(c)
  <2>1. Accounted(s, e)'
    BY <1>2, CallCounts DEF Accounted, EnterGrace, StoreRetry, Advance, At
  <2>. QED
    BY <1>2, <2>1 DEF Advance
<1>3. CASE EnterGrace(c) \/ StoreRetry(c)
  <2>1. PICK row : /\ subs' = [subs EXCEPT ![s] = row]
                   /\ row.end = subs[s].end /\ row.retry > 0
    BY <1>3, CallCounts DEF EnterGrace, StoreRetry, Advance, At
  <2>2. subs'[s] = row
    BY <2>1 DEF TablesTypeOK
  <2>3. Accounted(s, e)'
    BY <1>1, <2>1, <2>2, QueueTypes, SMT DEF Accounted
  <2>4. PICK pc \in {"emitFailed", "returned"} : Goto(c, pc)
    BY <1>3 DEF EnterGrace, StoreRetry
  <2>. QED
    BY <2>3, <2>4
<1>4. CASE Emit(c)
  <2>1. Accounted(s, e)
    BY <1>1, <1>4 DEF AccountsInv, Emit, At
  <2>. QED
    BY <1>1, <1>4, <2>1, AccountedStays DEF Emit
<1>5. CASE Reject(c)
  <2>1. Catch(cycles[c].pc) \in {"recordError", "failed", "threw"}
    BY Zenon DEF Catch
  <2>. QED
    BY <1>5, <2>1 DEF Reject, Fault
<1>6. CASE CreatePayment(c)
  BY <1>6 DEF CreatePayment, RowsOpen
<1>7. CASE FindPayment(c) \/ Dispatch(c)
  <2>1. \E pc \in {"advanceOnly", "create", "dispatch", "failed", "advance", "mock", "processing"} :
          Goto(c, pc)
    <3>1. CASE FindPayment(c)
      BY <3>1, Zenon DEF FindPayment
    <3>2. CASE Dispatch(c)
      BY <3>2 DEF Dispatch, Rail
    <3>. QED
      BY <1>7, <3>1, <3>2
  <2>. QED
    BY <2>1
<1>8. CASE \/ MarkMock(c) \/ MarkProcessing(c) \/ RecordPaid(c) \/ RecordFailure(c)
           \/ InvokePaid(c) \/ InvokeFailed(c) \/ InvokeError(c) \/ InvokeLate(c)
           \/ InvokeUnread(c) \/ MarkRetrying(c)
  <2>1. \E pc \in {"advance", "invoke", "failed", "recordPaid", "recordFailed", "recordError",
                   "storeRetry"} : Goto(c, pc)
    BY <1>8 DEF MarkMock, MarkProcessing, RecordPaid, RecordFailure, InvokePaid, InvokeFailed,
                InvokeError, InvokeLate, InvokeUnread, MarkRetrying
  <2>. QED
    BY <2>1
<1>. QED
  BY <1>o, <1>2, <1>3, <1>4, <1>5, <1>6, <1>7, <1>8 DEF CycleStep, CycleFault

\* The number of failures never passes its bound.
LEMMA FaultsBounded ==
  ASSUME QueueOnly, ServiceInv, [ServiceNext]_serviceVars, faults <= MaxFaults
  PROVE  faults' <= MaxFaults /\ faults' >= faults /\ faults' \in Nat /\ faults \in Nat
<1>t. faults \in Nat /\ MaxFaults \in Nat
  BY QueueTypes, TablesAssumption
<1>1. faults' = faults \/ Fault
  <2>1. CASE \E c \in Cycles : Working(c)
    BY <2>1 DEF Working, CycleStep, CycleFault, FindPayment, CreatePayment, Dispatch, MarkMock,
       MarkProcessing, InvokePaid, InvokeFailed, InvokeError, InvokeLate, InvokeUnread,
       RecordPaid, RecordFailure, Advance, Emit, EnterGrace, MarkRetrying, StoreRetry, Reject
  <2>2. CASE \A c \in Cycles : ~Working(c)
    BY <2>2, StepsAside
  <2>. QED
    BY <2>1, <2>2
<1>. QED
  BY <1>t, <1>1, SMT DEF Fault

\* Jobs and rows as far as the accounts go: what a step must keep of them.
LEMMA JobsStayAccounted ==
  ASSUME QueueOnly, ServiceInv, RowsExist, QueueInv, AccountsInv, [ServiceNext]_serviceVars,
         \A s \in Subs, e \in Dates :
           LET job == jobs'[<<s, e>>]
           IN  \/ job.tries = jobs[<<s, e>>].tries /\ job.state = jobs[<<s, e>>].state
               \/ /\ job.tries <= faults'
                  /\ job.state \in {"completed", "failed"} => Accounted(s, e) /\ Exists(s)
  PROVE  \A s \in Subs, e \in Dates :
           /\ jobs'[<<s, e>>].tries <= faults'
           /\ jobs'[<<s, e>>].state \in {"completed", "failed"} => Accounted(s, e)'
<1> SUFFICES ASSUME NEW s \in Subs, NEW e \in Dates
             PROVE  /\ jobs'[<<s, e>>].tries <= faults'
                    /\ jobs'[<<s, e>>].state \in {"completed", "failed"} => Accounted(s, e)'
  OBVIOUS
<1>1. faults' >= faults /\ faults' \in Nat /\ faults \in Nat
  BY FaultsBounded DEF AccountsInv
<1>2. jobs[<<s, e>>].tries \in Nat
  BY SMT DEF ServiceInv, ServiceTypeOK, JobIds, Scheduled, Job
<1>3. /\ jobs[<<s, e>>].tries <= faults
      /\ jobs[<<s, e>>].state \in {"completed", "failed"} => Accounted(s, e) /\ Exists(s)
  BY DEF AccountsInv, QueueInv, JobsCurrent
<1>4. jobs[<<s, e>>].tries <= faults'
  BY <1>1, <1>2, <1>3, SMT
<1>5. Accounted(s, e) /\ Exists(s) => Accounted(s, e)'
  BY AccountedStays
<1>. QED
  BY <1>3, <1>4, <1>5

\* What the accounts say of one call.
CallAccounted(c) ==
  LET s == Sub(c)
      e == End(c)
  IN  /\ subs[s].end >= e
      /\ cycles[c].pc \in {"emitSuccess", "emitFailed", "returned"} => Accounted(s, e)
      /\ At(c, "threw") => "reject" \in FaultKinds /\ jobs[<<s, e>>].tries < faults

\* A call that a step leaves alone, and its job with it, stays as accounted as it was.
LEMMA CallStaysAccounted ==
  ASSUME QueueOnly, ServiceInv, RowsExist, QueueInv, AccountsInv, [ServiceNext]_serviceVars,
         NEW c \in Cycles, cycles'[c] = cycles[c], cycles[c].pc # "idle",
         jobs'[<<Sub(c), End(c)>>].tries = jobs[<<Sub(c), End(c)>>].tries
  PROVE  CallAccounted(c)'
<1>1. PICK s \in Subs, e \in Dates : s = Sub(c) /\ e = End(c) /\ Exists(s)
  BY QueueTypes DEF QueueInv, CallsOwned, JobsCurrent, At
<1>2. CallAccounted(c)
  BY DEF AccountsInv, CallAccounted, At
<1>3. Sub(c)' = s /\ End(c)' = e
  BY <1>1 DEF Sub, End
<1>4. subs'[s].end >= e
  <2>1. subs[s].end >= e /\ subs'[s].end >= subs[s].end
    BY <1>1, <1>2, AccountedStays DEF CallAccounted
  <2>2. subs[s].end \in Int /\ subs'[s].end \in Int /\ e \in Int
    BY StepOfEngine, NextTypeOK, QueueTypes, SMT
       DEF ServiceInv, ServiceTypeOK, TypeOK, TablesTypeOK, Subscription, Dates
  <2>. QED
    BY <2>1, <2>2, SMT
<1>5. Accounted(s, e) => Accounted(s, e)'
  BY <1>1, AccountedStays
<1>6. jobs[<<s, e>>].tries < faults => jobs'[<<s, e>>].tries < faults'
  <2>1. faults' >= faults /\ faults' \in Nat /\ faults \in Nat
    BY FaultsBounded DEF AccountsInv
  <2>2. jobs[<<s, e>>].tries \in Nat
    BY SMT DEF ServiceInv, ServiceTypeOK, JobIds, Scheduled, Job
  <2>. QED
    BY <1>1, <2>1, <2>2, SMT
<1>7. Accounted(Sub(c), End(c))' <=> Accounted(s, e)'
  BY <1>3 DEF Accounted
<1>. QED
  BY <1>1, <1>2, <1>3, <1>4, <1>5, <1>6, <1>7 DEF CallAccounted, At

\* With two attempts at least a job does not fail: one that threw is tried again.
LEMMA NextAccounts ==
  ASSUME QueueOnly, Attempts > 1, ServiceInv, RowsExist, QueueInv, RowsOpen, AccountsInv,
         [ServiceNext]_serviceVars
  PROVE  AccountsInv'
<1>. SchedulerOnly
  BY DEF QueueOnly
<1>. TypeOK /\ TablesTypeOK /\ CycleTypeOK
  BY DEF ServiceInv, ServiceTypeOK, TypeOK
<1>f. /\ faults' <= MaxFaults /\ faults' >= faults /\ faults' \in Nat /\ faults \in Nat
      /\ faults <= MaxFaults
  BY FaultsBounded DEF AccountsInv
<1>t. /\ \A s \in Subs, e \in Dates : <<s, e>> \in JobIds /\ jobs[<<s, e>>].tries \in Nat
      /\ \A s \in Subs, e \in Dates : jobs[<<s, e>>].tries <= faults
      /\ \A c \in Cycles : End(c) \in Dates
  BY QueueTypes, SMT DEF ServiceInv, ServiceTypeOK, JobIds, Scheduled, Job, AccountsInv
<1>. SUFFICES /\ \A c \in Cycles : cycles'[c].pc # "idle" => CallAccounted(c)'
              /\ \A s \in Subs, e \in Dates :
                   LET job == jobs'[<<s, e>>]
                   IN  \/ job.tries = jobs[<<s, e>>].tries /\ job.state = jobs[<<s, e>>].state
                       \/ /\ job.tries <= faults'
                          /\ job.state \in {"completed", "failed"} => Accounted(s, e) /\ Exists(s)
  BY <1>f, JobsStayAccounted DEF AccountsInv, CallAccounted, At
<1>. DEFINE Calls == \A c \in Cycles : cycles'[c].pc # "idle" => CallAccounted(c)'
            Jobs == \A s \in Subs, e \in Dates :
                      LET job == jobs'[<<s, e>>]
                      IN  \/ job.tries = jobs[<<s, e>>].tries /\ job.state = jobs[<<s, e>>].state
                          \/ /\ job.tries <= faults'
                             /\ job.state \in {"completed", "failed"} =>
                                  Accounted(s, e) /\ Exists(s)
<1>1. ASSUME UNCHANGED jobs, \A c \in Cycles : cycles'[c] = cycles[c] \/ cycles'[c].pc = "idle"
      PROVE  Calls /\ Jobs
  BY <1>1, CallStaysAccounted
<1>2. ASSUME NEW c \in Cycles, Working(c) PROVE Calls /\ Jobs
  <2>1. UNCHANGED jobs
    BY <1>2 DEF Working
  <2>2. cycles[c].pc \in OpenPcs
    BY <1>2, CallWrites DEF Working
  <2>3. PICK s \in Subs, e \in Dates : s = Sub(c) /\ e = End(c) /\ Exists(s)
    BY <2>2, QueueTypes DEF QueueInv, CallsOwned, JobsCurrent, At, OpenPcs, LivePcs
  <2>4. PICK pc : /\ Goto(c, pc)
                  /\ pc \in {"emitSuccess", "emitFailed", "returned"} => Accounted(s, e)'
                  /\ pc = "threw" => "reject" \in FaultKinds /\ faults' = faults + 1
    BY <1>2, <2>3, CallAccounts
  <2>5. /\ cycles'[c].pc = pc /\ Sub(c)' = s /\ End(c)' = e
        /\ \A d \in Cycles \ {c} : cycles'[d] = cycles[d]
    BY <2>3, <2>4, Gone DEF Sub, End
  <2>6. CallAccounted(c)'
    <3>1. subs'[s].end >= e
      <4>1. subs[s].end >= e /\ subs'[s].end >= subs[s].end
        BY <2>2, <2>3, AccountedStays DEF AccountsInv, At, OpenPcs, LivePcs
      <4>2. subs[s].end \in Int /\ subs'[s].end \in Int /\ e \in Int
        BY StepOfEngine, NextTypeOK, QueueTypes, SMT DEF TypeOK, TablesTypeOK, Subscription, Dates
      <4>. QED
        BY <4>1, <4>2, SMT
    <3>2. pc = "threw" => "reject" \in FaultKinds /\ jobs'[<<s, e>>].tries < faults'
      <4>1. jobs[<<s, e>>].tries < faults + 1
        BY <1>f, <1>t, SMT
      <4>. QED
        BY <2>1, <2>4, <4>1
    <3>3. Accounted(Sub(c), End(c))' <=> Accounted(s, e)'
      BY <2>5 DEF Accounted
    <3>. QED
      BY <2>4, <2>5, <3>1, <3>2, <3>3 DEF CallAccounted, At
  <2>7. Calls
    BY <2>1, <2>5, <2>6, CallStaysAccounted
  <2>. QED
    BY <2>1, <2>7
<1>3. ASSUME NEW t \in Sweepers, AddJob(t) PROVE Calls /\ Jobs
  <2>1. UNCHANGED <<cycles, subs, faults>>
    BY <1>3 DEF AddJob, vars
  <2>2. CASE UNCHANGED jobs
    BY <1>1, <2>1, <2>2
  <2>3. CASE ~UNCHANGED jobs
    <3>1. PICK j \in ticks[t].todo : jobs[j] = NoJob /\ jobs' = [jobs EXCEPT ![j] = NewJob(j[1])]
      BY <1>3, <2>3 DEF AddJob
    <3>2. PICK s \in Subs, e \in Dates : j = <<s, e>>
      BY DEF ServiceInv, ServiceTypeOK, Scheduled
    <3>3. NewJob(s).state = "waiting" /\ NewJob(s).tries = 0 /\ NoJob.state = "absent"
      BY Zenon DEF NewJob, NoJob
    <3>4. /\ jobs'[<<s, e>>] = NewJob(s)
          /\ \A i \in JobIds \ {<<s, e>>} : jobs'[i] = jobs[i]
      BY <1>t, <3>1, <3>2 DEF ServiceInv, ServiceTypeOK
    <3>5. Jobs
      <4>1. 0 <= faults'
        BY <1>f, SMT
      <4> SUFFICES ASSUME NEW x \in Subs, NEW d \in Dates
                   PROVE  \/ /\ jobs'[<<x, d>>].tries = jobs[<<x, d>>].tries
                             /\ jobs'[<<x, d>>].state = jobs[<<x, d>>].state
                          \/ jobs'[<<x, d>>].tries = 0 /\ jobs'[<<x, d>>].state = "waiting"
        BY <4>1
      <4>. QED
        BY <1>t, <3>3, <3>4
    <3>6. Calls
      <4> SUFFICES ASSUME NEW c \in Cycles, cycles[c].pc # "idle"
                   PROVE  jobs'[<<Sub(c), End(c)>>] = jobs[<<Sub(c), End(c)>>]
        BY <2>1, CallStaysAccounted
      <4>1. <<Sub(c), End(c)>> \in JobIds /\ jobs[<<Sub(c), End(c)>>].state = "active"
        BY <1>t DEF QueueInv, CallsOwned, At
      <4>. QED
        BY <3>1, <3>2, <3>3, <3>4, <4>1
    <3>. QED
      BY <3>5, <3>6
  <2>. QED
    BY <2>2, <2>3
<1>4. ASSUME NEW j \in JobIds, NEW c \in Cycles, TakeJob(j, c) PROVE Calls /\ Jobs
  <2>1. PICK s \in Subs, e \in Dates : j = <<s, e>>
    BY QueueJobs
  <2>2. UNCHANGED <<subs, faults>> /\ jobs[j].state = "waiting"
    BY <1>4 DEF TakeJob, Start, tables
  <2>3. jobs[j].sub = s /\ Exists(s) /\ subs[s].end = e
    BY <2>1, <2>2 DEF QueueInv, JobsCurrent
  <2>4. PICK pc : /\ pc = "find" \/ (pc = "returned" /\ subs[s].status \in {"CANCELLED", "EXPIRED"})
                  /\ cycles' = [cycles EXCEPT ![c] =
                       [pc |-> pc, sub |-> s, end |-> e, retry |-> subs[s].retry]]
    BY <1>4, <2>3 DEF TakeJob, Start
  <2>5. /\ cycles'[c].pc = pc /\ Sub(c)' = s /\ End(c)' = e
        /\ \A d \in Cycles \ {c} : cycles'[d] = cycles[d]
    BY <2>4 DEF CycleTypeOK, Sub, End
  <2>. DEFINE job == [jobs[j] EXCEPT !.state = "active", !.by = c]
  <2>6. job.state = "active" /\ job.tries = jobs[j].tries
    BY QueueJobs, Zenon DEF Job
  <2>7. jobs' = [jobs EXCEPT ![j] = job]
    BY <1>4 DEF TakeJob, ServiceInv, ServiceTypeOK
  <2>. HIDE DEF job
  <2>8. jobs'[j] = job /\ \A i \in JobIds \ {j} : jobs'[i] = jobs[i]
    BY <2>7 DEF ServiceInv, ServiceTypeOK
  <2>9. \A i \in JobIds : jobs'[i].tries = jobs[i].tries
    BY <2>6, <2>8
  <2>10. Jobs
    <3> SUFFICES ASSUME NEW x \in Subs, NEW d \in Dates
                 PROVE  \/ /\ jobs'[<<x, d>>].tries = jobs[<<x, d>>].tries
                           /\ jobs'[<<x, d>>].state = jobs[<<x, d>>].state
                        \/ jobs'[<<x, d>>].tries <= faults' /\ jobs'[<<x, d>>].state = "active"
      OBVIOUS
    <3>1. jobs'[<<x, d>>].tries = jobs[<<x, d>>].tries /\ jobs[<<x, d>>].tries <= faults'
      BY <1>t, <2>2, <2>9
    <3>. QED
      BY <1>t, <2>6, <2>8, <3>1
  <2>11. CallAccounted(c)'
    <3>1. subs'[s].end >= e /\ subs'[s].end = e /\ subs'[s] = subs[s]
      BY <2>2, <2>3, QueueTypes, SMT
    <3>2. pc = "returned" => Accounted(Sub(c), End(c))'
      BY <2>4, <2>5, <3>1 DEF Accounted
    <3>. QED
      BY <2>4, <2>5, <3>1, <3>2 DEF CallAccounted, At
  <2>12. Calls
    <3> SUFFICES ASSUME NEW d \in Cycles \ {c}, cycles[d].pc # "idle"
                 PROVE  <<Sub(d), End(d)>> \in JobIds
      BY <2>5, <2>9, <2>11, CallStaysAccounted
    <3>. QED
      BY <1>t DEF QueueInv, CallsOwned, At
  <2>. QED
    BY <2>10, <2>12
<1>5. ASSUME NEW j \in JobIds, FinishJob(j) PROVE Calls /\ Jobs
  <2>1. PICK s \in Subs, e \in Dates : j = <<s, e>>
    BY QueueJobs
  <2>2. UNCHANGED <<subs, faults>> /\ jobs[j].state = "active"
    BY <1>5 DEF FinishJob, Finish, tables
  <2>3. PICK c \in Cycles : c = jobs[j].by
    BY <2>2, ActiveCall
  <2>4. cycles[c].pc \in {"returned", "threw"} /\ cycles' = [cycles EXCEPT ![c] = IdleCycle]
    BY <1>5, <2>3 DEF FinishJob, Finish
  <2>5. cycles'[c].pc = "idle" /\ \A d \in Cycles \ {c} : cycles'[d] = cycles[d]
    BY <2>4 DEF CycleTypeOK, IdleCycle
  <2>6. s = Sub(c) /\ e = End(c)
    <3>1. /\ <<Sub(c), End(c)>> \in JobIds
          /\ jobs[<<Sub(c), End(c)>>].by = c
      BY <1>t, <2>4 DEF QueueInv, CallsOwned, At
    <3>2. j = <<Sub(c), End(c)>>
      BY <2>2, <2>3, <3>1 DEF ServiceInv, JobsOwnCalls
    <3>. QED
      BY <2>1, <3>2
  <2>7. Exists(s)
    BY <2>1, <2>2 DEF QueueInv, JobsCurrent
  <2>8. /\ At(c, "returned") => Accounted(s, e)
        /\ At(c, "threw") => "reject" \in FaultKinds /\ jobs[j].tries < faults
    BY <2>1, <2>4, <2>6 DEF AccountsInv, At
  <2>9. At(c, "threw") => jobs[j].tries + 1 <= faults /\ jobs[j].tries + 1 < Attempts
    <3>1. jobs[j].tries \in Nat /\ Attempts \in Nat /\ MaxFaults \in Nat
      BY <1>t, <2>1, TablesAssumption, ServiceAssumption
    <3>2. At(c, "threw") => MaxFaults <= 1
      BY <2>8 DEF QueueOnly, SchedulerOnly
    <3>. QED
      BY <1>f, <2>8, <3>1, <3>2, SMT
  <2>10. PICK job :
          /\ jobs' = [jobs EXCEPT ![j] = job]
          /\ \/ /\ At(c, "threw")
                /\ job = [jobs[j] EXCEPT !.state = "waiting", !.by = None, !.tries = @ + 1]
             \/ /\ ~At(c, "threw")
                /\ job = [jobs[j] EXCEPT !.state = "completed", !.by = None]
    <3>1. j \notin Manual
      BY DEF QueueOnly, SchedulerOnly
    <3>. DEFINE done == [jobs[j] EXCEPT !.state = "completed", !.by = None]
                again == [jobs[j] EXCEPT !.state = "waiting", !.by = None, !.tries = @ + 1]
                gone == [jobs[j] EXCEPT !.state = "failed", !.by = None, !.tries = @ + 1]
                job == IF At(c, "threw") /\ jobs[j].tries + 1 < Attempts THEN again
                       ELSE IF j \in Manual THEN NoJob
                       ELSE IF At(c, "threw") THEN gone
                       ELSE done
    <3>2. jobs' = [jobs EXCEPT ![j] = job]
      BY <1>5, <2>3 DEF FinishJob
    <3>3. (At(c, "threw") /\ job = again) \/ (~At(c, "threw") /\ job = done)
      <4>. HIDE DEF again, done, gone
      <4>. QED
        BY <2>9, <3>1
    <3>. HIDE DEF job
    <3>. QED
      BY <3>2, <3>3
  <2>11. /\ At(c, "threw") => job.state = "waiting" /\ job.tries = jobs[j].tries + 1
         /\ ~At(c, "threw") => job.state = "completed" /\ job.tries = jobs[j].tries
    <3>1. jobs[j] \in Job
      BY QueueJobs
    <3>2. LET done == [jobs[j] EXCEPT !.state = "completed", !.by = None]
              again == [jobs[j] EXCEPT !.state = "waiting", !.by = None, !.tries = @ + 1]
          IN  /\ done.state = "completed" /\ done.tries = jobs[j].tries
              /\ again.state = "waiting" /\ again.tries = jobs[j].tries + 1
      BY <3>1, Zenon DEF Job
    <3>. QED
      BY <2>10, <3>2
  <2>12. /\ job.tries <= faults'
         /\ job.state \in {"completed", "failed"} => Accounted(s, e) /\ Exists(s)
    <3>1. CASE At(c, "threw")
      BY <2>2, <2>9, <2>11, <3>1
    <3>2. CASE ~At(c, "threw")
      <4>1. jobs[j].tries <= faults
        BY <1>t, <2>1
      <4>. QED
        BY <2>2, <2>4, <2>7, <2>8, <2>11, <3>2, <4>1 DEF At
    <3>. QED
      BY <3>1, <3>2
  <2>13. jobs'[<<s, e>>] = job /\ \A i \in JobIds \ {<<s, e>>} : jobs'[i] = jobs[i]
    BY <2>1, <2>10 DEF ServiceInv, ServiceTypeOK
  <2>14. Jobs
    <3> SUFFICES ASSUME NEW x \in Subs, NEW d \in Dates
                 PROVE  \/ /\ jobs'[<<x, d>>].tries = jobs[<<x, d>>].tries
                           /\ jobs'[<<x, d>>].state = jobs[<<x, d>>].state
                        \/ /\ jobs'[<<x, d>>].tries <= faults'
                           /\ jobs'[<<x, d>>].state \in {"completed", "failed"} =>
                                Accounted(x, d) /\ Exists(x)
      OBVIOUS
    <3>1. CASE <<x, d>> = <<s, e>>
      BY <2>12, <2>13, <3>1
    <3>2. CASE <<x, d>> # <<s, e>>
      BY <1>t, <2>13, <3>2
    <3>. QED
      BY <3>1, <3>2
  <2>15. Calls
    <3> SUFFICES ASSUME NEW d \in Cycles \ {c}, cycles[d].pc # "idle"
                 PROVE  jobs'[<<Sub(d), End(d)>>] = jobs[<<Sub(d), End(d)>>]
      BY <2>5, CallStaysAccounted
    <3>1. <<Sub(d), End(d)>> \in JobIds /\ jobs[<<Sub(d), End(d)>>].by = d
      BY <1>t DEF QueueInv, CallsOwned, At
    <3>. QED
      BY <2>1, <2>3, <2>13, <3>1
  <2>. QED
    BY <2>14, <2>15
<1>6. ASSUME NEW j \in JobIds, RecoverJob(j) \/ Evict(j) PROVE FALSE
  <2>1. jobs[j].state # "stalled"
    BY QueueJobs DEF QueueInv, JobsCurrent
  <2>. QED
    BY <1>6, <2>1 DEF RecoverJob, Evict, QueueOnly, SchedulerOnly
<1>7. ASSUME NEW c \in Cycles, CrashWorker(c) \/ RunInline(c) PROVE Calls /\ Jobs
  <2>1. Finish(c) /\ UNCHANGED jobs
    BY <1>7 DEF CrashWorker, RunInline, Crash, QueueOnly, SchedulerOnly
  <2>2. \A d \in Cycles : cycles'[d] = cycles[d] \/ cycles'[d].pc = "idle"
    BY <2>1 DEF Finish, CycleTypeOK, IdleCycle
  <2>. QED
    BY <1>1, <2>1, <2>2
<1>8. ASSUME NEW t \in Sweepers, ReadDue(t) \/ BeginSweep(t) \/ SweepOn(t) \/ AbortTick(t)
      PROVE  UNCHANGED <<jobs, cycles>>
  BY <1>8 DEF ReadDue, BeginSweep, SweepOn, AbortTick, vars, cycleVars
<1>9. ASSUME \/ Serving /\ UNCHANGED <<jobs, ticks>>
             \/ Settling /\ UNCHANGED <<jobs, ticks>>
             \/ Passing /\ UNCHANGED <<jobs, ticks>>
             \/ UNCHANGED serviceVars
      PROVE  UNCHANGED <<jobs, cycles>>
  BY <1>9 DEF Serving, Settling, ChainStep, Land, Lapse, Passing, cycleVars, serviceVars, vars
<1>10. ASSUME NEW m \in Manual PROVE FALSE
  BY <1>10 DEF QueueOnly, SchedulerOnly
<1>. QED
  BY <1>1, <1>2, <1>3, <1>4, <1>5, <1>6, <1>7, <1>8, <1>9, <1>10 DEF ServiceNext

LEMMA InitAccounts == ServiceInit => AccountsInv
<1> SUFFICES ASSUME ServiceInit PROVE AccountsInv
  OBVIOUS
<1>1. /\ \A c \in Cycles : cycles[c].pc = "idle"
      /\ \A s \in Subs, e \in Dates :
           jobs[<<s, e>>].state = "absent" /\ jobs[<<s, e>>].tries = 0
      /\ faults = 0
  BY SMT DEF ServiceInit, Init, TablesInit, CycleInit, IdleCycle, NoJob, JobIds, Scheduled
<1>. QED
  BY <1>1, TablesAssumption, SMT DEF AccountsInv, At

\* The job that is kept after it ended keeps its period from being attempted again, but
\* only a period that has had its attempt: paid, or its failure counted.  That needs two
\* attempts at least: a job with one fails when its call is rejected early on.
THEOREM JobIdsAccountForFailures ==
  QueueOnly /\ Attempts > 1 => (ServiceSafety => []EndedIsAccounted)
<1> SUFFICES ASSUME QueueOnly, Attempts > 1 PROVE ServiceSafety => []EndedIsAccounted
  OBVIOUS
<1>1. ServiceInit => RowsOpen /\ AccountsInv
  BY InitRowsOpen, InitAccounts
<1>2. /\ RowsOpen /\ AccountsInv
      /\ ServiceInv /\ RowsExist /\ QueueInv /\ [ServiceNext]_serviceVars
      => (RowsOpen /\ AccountsInv)'
  BY NextRowsOpen, NextAccounts
<1>3. ServiceInv /\ AccountsInv => EndedIsAccounted
  <2> SUFFICES ASSUME ServiceInv, AccountsInv, NEW s \in Subs, NEW e \in Dates,
                      jobs[<<s, e>>].state \in {"completed", "failed"}, Due(s), subs[s].end = e
               PROVE  subs[s].retry > 0
    BY DEF EndedIsAccounted
  <2>1. Accounted(s, e)
    BY DEF AccountsInv
  <2>2. ~(subs[s].end > e)
    BY QueueTypes, SMT
  <2>. QED
    BY <2>1, <2>2 DEF Accounted, Due
<1>. QED
  BY <1>1, <1>2, <1>3, QueueInvariant, PTL DEF ServiceSafety
=============================================================================
