------------------------- MODULE BillingEngineProofs -------------------------
(***************************************************************************)
(* What BillingEngine guarantees for every set of subscriptions and of     *)
(* concurrent calls, every clock, every retry and grace setting.           *)
(***************************************************************************)
EXTENDS BillingEngine, TLAPS

-----------------------------------------------------------------------------
(* Type correctness, one lemma per part of the system.                     *)

LEMMA InitTypeOK == Init => TypeOK
BY TablesAssumption, CycleAssumption, SMT
   DEF Init, TablesInit, CycleInit, SweepInit, ApiInit, TypeOK, TablesTypeOK,
       CycleTypeOK, SweepTypeOK, ApiTypeOK, NoSubscription, Subscription, Statuses,
       PaymentStatuses, Dates, NoTime, IdleCycle, Cycle, Pcs, OpenPcs, LivePcs,
       IdleSweep, NoRequest, Request

\* A call that starts, moves on, is rejected, dies or ends keeps well-formed locals.
LEMMA GotoType ==
  ASSUME CycleTypeOK, NEW c \in Cycles, NEW pc \in Pcs,
         cycles[c].pc \in OpenPcs, Goto(c, pc)
  PROVE  /\ cycles' \in [Cycles -> Cycle]
         /\ \A d \in Cycles : cycles'[d].pc \in OpenPcs =>
              cycles'[d].sub \in Subs /\ cycles'[d].end + Period <= MaxDate
BY SMT DEF CycleTypeOK, Goto, Cycle, Sub, End

LEMMA OpenCycle ==
  ASSUME CycleTypeOK, NEW c \in Cycles, cycles[c].pc \in OpenPcs
  PROVE  /\ Sub(c) \in Subs /\ End(c) \in Dates
         /\ NextPeriod(End(c)) \in Dates
         /\ cycles[c].retry \in Nat
BY TablesAssumption, SMT DEF CycleTypeOK, Cycle, Sub, End, NextPeriod, Dates

LEMMA SetRowType ==
  ASSUME TablesTypeOK, CycleTypeOK, NEW c \in Cycles, cycles[c].pc \in OpenPcs,
         NEW status \in PaymentStatuses, SetRow(c, status)
  PROVE  payments' \in [Subs -> [Dates -> PaymentStatuses]]
BY OpenCycle, SMT DEF TablesTypeOK, SetRow

LEMMA ChargedType ==
  ASSUME CycleTypeOK, NEW c \in Cycles, cycles[c].pc \in OpenPcs, Charged(c)
  PROVE  charges' \in [Subs -> [Dates -> Nat]]
BY OpenCycle, SMT DEF CycleTypeOK, Charged

\* A new row for one subscription, well formed, keeps the table well formed.
LEMMA SetSubType ==
  ASSUME TablesTypeOK, NEW s \in Subs, NEW row \in Subscription,
         subs' = [subs EXCEPT ![s] = row]
  PROVE  subs' \in [Subs -> Subscription]
BY SMT DEF TablesTypeOK

\* A call sends a transaction adrift at its invocation, or leaves them alone.
LEMMA AdriftSet ==
  ASSUME CycleTypeOK, NEW c \in Cycles, Billing(c)
  PROVE  /\ adrift' \in [Subs -> [Dates -> Nat]]
         /\ \/ adrift' = adrift
            \/ /\ At(c, "invoke") /\ payments' = payments
               /\ \A s \in Subs, e \in Dates :
                    s # Sub(c) \/ e # End(c) => adrift'[s][e] = adrift[s][e]
<1>1. CASE UNCHANGED adrift
  BY <1>1 DEF CycleTypeOK
<1>2. CASE At(c, "invoke") /\ Adrift(c) /\ UNCHANGED payments
  <2>1. Sub(c) \in Subs /\ End(c) \in Dates
    BY <1>2, OpenCycle DEF At, OpenPcs, LivePcs
  <2>. QED
    BY <1>2, <2>1, SMT DEF Adrift, CycleTypeOK
<1>. QED
  BY <1>1, <1>2
     DEF Billing, Start, CycleStep, CycleFault, InvokeLate, Crash, Finish, tables

\* Every action of a billing cycle, failures included, preserves the types of the
\* tables and of the calls in progress.
LEMMA BillingType ==
  ASSUME TablesTypeOK, CycleTypeOK, NEW c \in Cycles, Billing(c)
  PROVE  TablesTypeOK' /\ CycleTypeOK'
<1> USE DEF tables
<1>. adrift' \in [Subs -> [Dates -> Nat]]
  BY AdriftSet
<1>1. ASSUME NEW s \in Subs, Start(c, s) PROVE TablesTypeOK' /\ CycleTypeOK'
  <2>1. subs[s] \in Subscription
    BY DEF TablesTypeOK
  <2>2. cycles' \in [Cycles -> Cycle]
    BY <1>1, <2>1, SMT DEF Start, CycleTypeOK, Cycle, Subscription, Pcs, OpenPcs
  <2>3. \A d \in Cycles : cycles'[d].pc \in OpenPcs =>
          cycles'[d].sub \in Subs /\ cycles'[d].end + Period <= MaxDate
    BY <1>1, <2>1, SMT DEF Start, Bounded, CycleTypeOK, Cycle, Sub, End
  <2>. QED
    BY <1>1, <2>2, <2>3 DEF Start, TablesTypeOK, CycleTypeOK, Sub, End
<1>2. ASSUME FindPayment(c) PROVE TablesTypeOK' /\ CycleTypeOK'
  <2>. DEFINE to == CASE Row(c) = "SUCCESS" -> "advanceOnly"
                      [] Row(c) = "NONE"    -> "create"
                      [] OTHER              -> "dispatch"
  <2>1. cycles[c].pc \in OpenPcs /\ to \in Pcs
    BY <1>2, Zenon DEF FindPayment, At, OpenPcs, Pcs
  <2>2. Goto(c, to)
    BY <1>2 DEF FindPayment
  <2>. HIDE DEF to
  <2>. QED
    BY <1>2, <2>1, <2>2, GotoType DEF FindPayment, TablesTypeOK, CycleTypeOK, Sub, End
<1>3. ASSUME CreatePayment(c) PROVE TablesTypeOK' /\ CycleTypeOK'
  <2>1. cycles[c].pc \in OpenPcs /\ "dispatch" \in Pcs /\ "threw" \in Pcs
    BY <1>3 DEF CreatePayment, At, OpenPcs, Pcs
  <2>2. "PENDING" \in PaymentStatuses
    BY DEF PaymentStatuses
  <2>. QED
    BY <1>3, <2>1, <2>2, GotoType, SetRowType
       DEF CreatePayment, TablesTypeOK, CycleTypeOK, Sub, End
<1>4. ASSUME Dispatch(c) PROVE TablesTypeOK' /\ CycleTypeOK'
  <2>1. PICK to \in {"failed", "advance", "mock", "processing"} : Goto(c, to)
    BY <1>4, SMT DEF Dispatch, Rail
  <2>2. cycles[c].pc \in OpenPcs /\ to \in Pcs
    BY <1>4, <2>1 DEF Dispatch, At, OpenPcs, LivePcs, Pcs
  <2>. QED
    BY <1>4, <2>1, <2>2, GotoType DEF Dispatch, TablesTypeOK, CycleTypeOK, Sub, End
<1>5. ASSUME MarkMock(c) \/ MarkProcessing(c) \/ RecordPaid(c) \/ RecordFailure(c)
      PROVE TablesTypeOK' /\ CycleTypeOK'
  <2>1. cycles[c].pc \in OpenPcs
    BY <1>5 DEF MarkMock, MarkProcessing, RecordPaid, RecordFailure, At, OpenPcs, LivePcs
  <2>2. /\ "SUCCESS" \in PaymentStatuses /\ "PROCESSING" \in PaymentStatuses
        /\ "FAILED" \in PaymentStatuses
        /\ "advance" \in Pcs /\ "invoke" \in Pcs /\ "failed" \in Pcs
    BY DEF PaymentStatuses, Pcs, OpenPcs, LivePcs
  <2>3. CASE MarkMock(c)
    BY <2>1, <2>2, <2>3, GotoType, SetRowType
       DEF MarkMock, TablesTypeOK, CycleTypeOK, Sub, End
  <2>4. CASE MarkProcessing(c)
    BY <2>1, <2>2, <2>4, GotoType, SetRowType
       DEF MarkProcessing, TablesTypeOK, CycleTypeOK, Sub, End
  <2>5. CASE RecordPaid(c)
    BY <2>1, <2>2, <2>5, GotoType, SetRowType
       DEF RecordPaid, TablesTypeOK, CycleTypeOK, Sub, End
  <2>6. CASE RecordFailure(c)
    BY <2>1, <2>2, <2>6, GotoType, SetRowType
       DEF RecordFailure, TablesTypeOK, CycleTypeOK, Sub, End
  <2>. QED
    BY <1>5, <2>3, <2>4, <2>5, <2>6
<1>6. ASSUME \/ InvokePaid(c) \/ InvokeFailed(c) \/ InvokeError(c)
             \/ InvokeLate(c) \/ InvokeUnread(c)
      PROVE TablesTypeOK' /\ CycleTypeOK'
  <2>1. cycles[c].pc \in OpenPcs
    BY <1>6 DEF InvokePaid, InvokeFailed, InvokeError, InvokeLate, InvokeUnread, At,
                OpenPcs, LivePcs
  <2>2. "recordPaid" \in Pcs /\ "recordFailed" \in Pcs /\ "recordError" \in Pcs
    BY DEF Pcs, OpenPcs, LivePcs
  <2>3. /\ cycles' \in [Cycles -> Cycle]
        /\ \A d \in Cycles : cycles'[d].pc \in OpenPcs =>
              cycles'[d].sub \in Subs /\ cycles'[d].end + Period <= MaxDate
    BY <1>6, <2>1, <2>2, GotoType
       DEF InvokePaid, InvokeFailed, InvokeError, InvokeLate, InvokeUnread
  <2>4. charges' \in [Subs -> [Dates -> Nat]]
    BY <1>6, <2>1, ChargedType
       DEF InvokePaid, InvokeFailed, InvokeError, InvokeLate, InvokeUnread, CycleTypeOK
  <2>5. TablesTypeOK'
    BY <1>6, SMT DEF InvokePaid, InvokeFailed, InvokeError, InvokeLate, InvokeUnread, Fault,
                TablesTypeOK
  <2>. QED
    BY <2>3, <2>4, <2>5 DEF CycleTypeOK, Sub, End
<1>7. ASSUME Advance(c) PROVE TablesTypeOK' /\ CycleTypeOK'
  <2>1. cycles[c].pc \in OpenPcs
    BY <1>7 DEF Advance, At, OpenPcs
  <2>2. subs[Sub(c)] \in Subscription
    BY <2>1, OpenCycle DEF TablesTypeOK
  <2>. DEFINE row == [subs[Sub(c)] EXCEPT !.status = "ACTIVE", !.start = End(c),
                        !.end = NextPeriod(End(c)), !.retry = 0, !.grace = NoTime]
  <2>3. row \in Subscription
    BY <2>1, <2>2, OpenCycle, Zenon DEF Subscription, Statuses
  <2>4. subs' = [subs EXCEPT ![Sub(c)] = row]
    BY <1>7 DEF Advance
  <2>. HIDE DEF row
  <2>5. TablesTypeOK'
    BY <1>7, <2>1, <2>3, <2>4, OpenCycle, SetSubType DEF Advance, TablesTypeOK
  <2>6. PICK to \in {"emitSuccess", "returned"} : Goto(c, to)
    BY <1>7 DEF Advance
  <2>7. to \in Pcs
    BY <2>6 DEF Pcs, OpenPcs
  <2>. QED
    BY <1>7, <2>1, <2>5, <2>6, <2>7, GotoType DEF Advance, CycleTypeOK, Sub, End
<1>8. ASSUME Emit(c) PROVE TablesTypeOK' /\ CycleTypeOK'
  <2>1. cycles[c].pc \in OpenPcs /\ "returned" \in Pcs
    BY <1>8 DEF Emit, At, OpenPcs, Pcs
  <2>. QED
    BY <1>8, <2>1, GotoType DEF Emit, TablesTypeOK, CycleTypeOK, Sub, End
<1>9. ASSUME EnterGrace(c) PROVE TablesTypeOK' /\ CycleTypeOK'
  <2>1. cycles[c].pc \in OpenPcs /\ "emitFailed" \in Pcs
    BY <1>9 DEF EnterGrace, At, OpenPcs, Pcs
  <2>2. subs[Sub(c)] \in Subscription
    BY <2>1, OpenCycle DEF TablesTypeOK
  <2>. DEFINE row == [subs[Sub(c)] EXCEPT !.status = "PAST_DUE", !.retry = Retry(c),
                        !.grace = now + Grace]
  <2>3. Retry(c) \in Nat /\ now + Grace \in Nat
    BY <2>1, OpenCycle, TablesAssumption, SMT DEF Retry, TablesTypeOK
  <2>4. row \in Subscription
    BY <2>2, <2>3, Zenon DEF Subscription, Statuses
  <2>5. subs' = [subs EXCEPT ![Sub(c)] = row]
    BY <1>9 DEF EnterGrace
  <2>. HIDE DEF row
  <2>6. TablesTypeOK'
    BY <1>9, <2>1, <2>4, <2>5, OpenCycle, SetSubType DEF EnterGrace, TablesTypeOK
  <2>. QED
    BY <1>9, <2>1, <2>6, GotoType DEF EnterGrace, CycleTypeOK, Sub, End
<1>10. ASSUME MarkRetrying(c) PROVE TablesTypeOK' /\ CycleTypeOK'
  <2>1. cycles[c].pc \in OpenPcs /\ "storeRetry" \in Pcs
    BY <1>10 DEF MarkRetrying, At, OpenPcs, Pcs
  <2>2. payments' \in [Subs -> [Dates -> PaymentStatuses]]
    BY <1>10, <2>1, OpenCycle, SMT DEF MarkRetrying, TablesTypeOK, PaymentStatuses
  <2>. QED
    BY <1>10, <2>1, <2>2, GotoType DEF MarkRetrying, TablesTypeOK, CycleTypeOK, Sub, End
<1>11. ASSUME StoreRetry(c) PROVE TablesTypeOK' /\ CycleTypeOK'
  <2>1. cycles[c].pc \in OpenPcs /\ "returned" \in Pcs
    BY <1>11 DEF StoreRetry, At, OpenPcs, Pcs
  <2>2. Retry(c) \in Nat
    BY <2>1, OpenCycle, SMT DEF Retry
  <2>3. subs[Sub(c)] \in Subscription
    BY <2>1, OpenCycle DEF TablesTypeOK
  <2>4. [subs[Sub(c)] EXCEPT !.retry = Retry(c)] \in Subscription
    BY <2>2, <2>3, Zenon DEF Subscription
  <2>5. subs' \in [Subs -> Subscription]
    BY <1>11, <2>1, <2>4, OpenCycle, SetSubType DEF StoreRetry
  <2>. QED
    BY <1>11, <2>1, <2>5, GotoType DEF StoreRetry, TablesTypeOK, CycleTypeOK, Sub, End
<1>12. ASSUME Reject(c) PROVE TablesTypeOK' /\ CycleTypeOK'
  <2>1. PICK to \in {"recordError", "failed", "threw"} : Goto(c, to)
    BY <1>12, Zenon DEF Reject, Catch
  <2>2. cycles[c].pc \in OpenPcs /\ to \in Pcs
    BY <1>12, <2>1 DEF Reject, Pcs, OpenPcs, LivePcs
  <2>. QED
    BY <1>12, <2>1, <2>2, GotoType, SMT DEF Reject, Fault, TablesTypeOK, CycleTypeOK, Sub, End
<1>13. ASSUME Crash(c) \/ Finish(c) PROVE TablesTypeOK' /\ CycleTypeOK'
  <2>1. IdleCycle \in Cycle /\ IdleCycle.pc \notin OpenPcs
    BY TablesAssumption, SMT DEF IdleCycle, Cycle, Pcs, OpenPcs, LivePcs, Dates
  <2>2. cycles' = [cycles EXCEPT ![c] = IdleCycle]
    BY <1>13 DEF Crash, Finish
  <2>. QED
    BY <1>13, <2>1, <2>2, SMT DEF Crash, Finish, Fault, TablesTypeOK, CycleTypeOK, Sub, End
<1>. QED
  BY <1>1, <1>2, <1>3, <1>4, <1>5, <1>6, <1>7, <1>8, <1>9, <1>10, <1>11, <1>12, <1>13
     DEF Billing, CycleStep, CycleFault

\* A grace sweep preserves the types of the tables and of the sweeps.
LEMMA SweepingType ==
  ASSUME TablesTypeOK, SweepTypeOK, NEW w \in Sweepers, SweepStep(w) \/ AbortSweep(w)
  PROVE  TablesTypeOK' /\ SweepTypeOK'
<1> USE DEF tables
<1>1. CASE FindExpired(w)
  BY <1>1, SMT DEF FindExpired, TablesTypeOK, SweepTypeOK
<1>2. ASSUME NEW s \in Subs, CancelExpired(w, s) PROVE TablesTypeOK' /\ SweepTypeOK'
  <2>1. [subs[s] EXCEPT !.status = "CANCELLED"] \in Subscription
    BY Zenon DEF TablesTypeOK, Subscription, Statuses
  <2>2. sweeps' \in [Sweepers -> [pc : {"idle", "cancel", "emit"}, todo : SUBSET Subs]]
    BY <1>2, SMT DEF CancelExpired, SweepTypeOK
  <2>. QED
    BY <1>2, <2>1, <2>2, SetSubType DEF CancelExpired, TablesTypeOK, SweepTypeOK
<1>3. CASE EmitCancelled(w)
  BY <1>3, SMT DEF EmitCancelled, IdleSweep, TablesTypeOK, SweepTypeOK
<1>4. CASE AbortSweep(w)
  BY <1>4, SMT DEF AbortSweep, Fault, IdleSweep, TablesTypeOK, SweepTypeOK
<1>. QED
  BY <1>1, <1>2, <1>3, <1>4 DEF SweepStep

\* A request that is being handled names a subscription of the table.
LEMMA PendingRequest ==
  ASSUME ApiTypeOK, NEW r \in Requests, NEW op, Pending(r, op)
  PROVE  requests[r].sub \in Subs /\ requests[r].status \in Statuses
BY SMT DEF ApiTypeOK, Pending, Request, NoRequest

\* Answering a request with a well-formed row preserves the types.
LEMMA ReplyType ==
  ASSUME TablesTypeOK, ApiTypeOK, NEW r \in Requests, NEW row \in Subscription,
         requests[r].sub \in Subs, Reply(r, row)
  PROVE  TablesTypeOK' /\ ApiTypeOK'
<1>1. subs' \in [Subs -> Subscription]
  BY SetSubType DEF Reply
<1>2. ApiTypeOK'
  BY SMT DEF Reply, ApiTypeOK
<1>. QED
  BY <1>1, <1>2 DEF Reply, TablesTypeOK

\* The subscription routes preserve the types of the tables and of the requests.
LEMMA ServingType ==
  ASSUME TablesTypeOK, ApiTypeOK, ApiStep
  PROVE  TablesTypeOK' /\ ApiTypeOK'
<1> USE DEF tables
<1>1. ASSUME NEW s \in Subs, NEW trial \in Trials, CreateSubscription(s, trial)
      PROVE  TablesTypeOK' /\ ApiTypeOK'
  <2>. DEFINE row == [NoSubscription EXCEPT
                        !.status = IF trial > 0 THEN "TRIALING" ELSE "ACTIVE",
                        !.start = now + trial, !.end = NextPeriod(now + trial)]
  <2>1. now + trial \in Dates /\ NextPeriod(now + trial) \in Dates
    BY TablesAssumption, SMT DEF TablesTypeOK, Dates, NextPeriod
  <2>2. NoSubscription \in Subscription
    BY TablesAssumption, SMT DEF NoSubscription, Subscription, Statuses, Dates
  <2>3. (IF trial > 0 THEN "TRIALING" ELSE "ACTIVE") \in Statuses
    BY DEF Statuses
  <2>4. row \in Subscription
    BY <2>1, <2>2, <2>3, Zenon DEF Subscription
  <2>5. subs' = [subs EXCEPT ![s] = row]
    BY <1>1 DEF CreateSubscription
  <2>. HIDE DEF row
  <2>. QED
    BY <1>1, <2>4, <2>5, SetSubType DEF CreateSubscription, TablesTypeOK, ApiTypeOK
<1>2. ASSUME NEW r \in Requests, NEW op \in Ops, NEW s \in Subs, ReadForUpdate(r, op, s)
      PROVE  TablesTypeOK' /\ ApiTypeOK'
  <2>1. subs[s].status \in Statuses
    BY SMT DEF TablesTypeOK, Subscription
  <2>2. ApiTypeOK'
    BY <1>2, <2>1, SMT DEF ReadForUpdate, ApiTypeOK, Request
  <2>. QED
    BY <1>2, <2>2 DEF ReadForUpdate, TablesTypeOK
<1>3. ASSUME NEW r \in Requests, CancelNow(r) \/ CancelAtEnd(r) \/ Pause(r) \/ Resume(r)
      PROVE  TablesTypeOK' /\ ApiTypeOK'
  <2>1. requests[r].sub \in Subs /\ requests[r].status \in Statuses
    BY <1>3, PendingRequest DEF CancelNow, CancelAtEnd, Pause, Resume
  <2>2. subs[requests[r].sub] \in Subscription
    BY <2>1 DEF TablesTypeOK
  <2>3. CASE CancelNow(r)
    <3>1. [subs[requests[r].sub] EXCEPT !.cancelAtEnd = FALSE, !.status = "CANCELLED"]
            \in Subscription
      BY <2>2, Zenon DEF Subscription, Statuses
    <3>. QED
      BY <2>1, <2>3, <3>1, ReplyType DEF CancelNow
  <2>4. CASE CancelAtEnd(r)
    <3>1. [subs[requests[r].sub] EXCEPT !.cancelAtEnd = TRUE, !.status = requests[r].status]
            \in Subscription
      BY <2>1, <2>2, Zenon DEF Subscription
    <3>. QED
      BY <2>1, <2>4, <3>1, ReplyType DEF CancelAtEnd
  <2>5. CASE Pause(r)
    <3>1. [subs[requests[r].sub] EXCEPT !.paused = TRUE] \in Subscription
      BY <2>2, Zenon DEF Subscription
    <3>. QED
      BY <2>1, <2>5, <3>1, ReplyType DEF Pause
  <2>6. CASE Resume(r)
    <3>1. now \in Dates /\ NextPeriod(now) \in Dates
      BY TablesAssumption, SMT DEF TablesTypeOK, Dates, NextPeriod
    <3>2. [subs[requests[r].sub] EXCEPT !.paused = FALSE, !.start = now,
             !.end = NextPeriod(now)] \in Subscription
      BY <2>2, <3>1, Zenon DEF Subscription
    <3>. QED
      BY <2>1, <2>6, <3>2, ReplyType DEF Resume
  <2>. QED
    BY <1>3, <2>3, <2>4, <2>5, <2>6
<1>. QED
  BY <1>1, <1>2, <1>3 DEF ApiStep

\* What the chain does with a transaction adrift keeps the counts natural.
LEMMA SettlingType ==
  ASSUME TypeOK, Settling
  PROVE  /\ UNCHANGED <<subs, payments, now, faults, cycles, sweeps, requests>>
         /\ charges' \in [Subs -> [Dates -> Nat]] /\ adrift' \in [Subs -> [Dates -> Nat]]
<1>1. PICK s \in Subs, e \in Dates : Land(s, e) \/ Lapse(s, e)
  BY DEF Settling, ChainStep
<1>2. charges \in [Subs -> [Dates -> Nat]] /\ adrift \in [Subs -> [Dates -> Nat]]
  BY DEF TypeOK, CycleTypeOK
<1>3. adrift[s][e] - 1 \in Nat /\ charges[s][e] + 1 \in Nat
  BY <1>1, <1>2, SMT DEF Land, Lapse
<1>4. adrift' \in [Subs -> [Dates -> Nat]]
  BY <1>1, <1>2, <1>3, SMT DEF Land, Lapse
<1>5. charges' \in [Subs -> [Dates -> Nat]]
  BY <1>1, <1>2, <1>3, SMT DEF Land, Lapse
<1>. QED
  BY <1>1, <1>4, <1>5 DEF Settling, Land, Lapse, tables

LEMMA NextTypeOK == TypeOK /\ [Next]_vars => TypeOK'
<1> SUFFICES ASSUME TypeOK, [Next]_vars PROVE TypeOK'
  OBVIOUS
<1> USE DEF TypeOK
<1>1. ASSUME NEW c \in Cycles, Billing(c) PROVE TypeOK'
  BY <1>1, BillingType DEF Billing, SweepTypeOK, ApiTypeOK
<1>2. ASSUME NEW w \in Sweepers, Sweeping(w) PROVE TypeOK'
  BY <1>2, SweepingType DEF Sweeping, cycleVars, CycleTypeOK, ApiTypeOK, Sub, End
<1>3. CASE Serving
  BY <1>3, ServingType DEF Serving, cycleVars, CycleTypeOK, SweepTypeOK, Sub, End
<1>4. CASE Passing
  <2>1. TablesTypeOK'
    BY <1>4, TablesAssumption, SMT DEF Passing, Tick, tables, TablesTypeOK
  <2>. QED
    BY <1>4, <2>1
       DEF Passing, cycleVars, CycleTypeOK, SweepTypeOK, ApiTypeOK, Sub, End
<1>5. CASE UNCHANGED vars
  BY <1>5 DEF vars, TablesTypeOK, CycleTypeOK, SweepTypeOK, ApiTypeOK, Sub, End
<1>6. CASE Settling
  BY <1>6, SettlingType DEF TablesTypeOK, CycleTypeOK, SweepTypeOK, ApiTypeOK, Sub, End
<1>. QED
  BY <1>1, <1>2, <1>3, <1>4, <1>5, <1>6 DEF Next

\* Whatever is billed, swept, requested or lost, every row and every local variable
\* keeps its type; in particular no period ends beyond the calendar of the model.
THEOREM TypeCorrect == Spec => []TypeOK
BY InitTypeOK, NextTypeOK, PTL DEF Spec

-----------------------------------------------------------------------------
(* What the assignments shared by the actions of a cycle do.               *)

LEMMA Gone ==
  ASSUME CycleTypeOK, NEW c \in Cycles, NEW pc, Goto(c, pc)
  PROVE  /\ cycles'[c].pc = pc
         /\ \A d \in Cycles : cycles'[d].sub = cycles[d].sub /\ cycles'[d].end = cycles[d].end
         /\ \A d \in Cycles \ {c} : cycles'[d] = cycles[d]
BY SMT DEF CycleTypeOK, Goto, Cycle

LEMMA RowSet ==
  ASSUME TablesTypeOK, CycleTypeOK, NEW c \in Cycles, cycles[c].pc \in OpenPcs,
         NEW status, SetRow(c, status)
  PROVE  /\ payments'[Sub(c)][End(c)] = status
         /\ \A s \in Subs, e \in Dates :
              s # Sub(c) \/ e # End(c) => payments'[s][e] = payments[s][e]
BY OpenCycle, SMT DEF TablesTypeOK, SetRow

LEMMA ChargeSet ==
  ASSUME CycleTypeOK, NEW c \in Cycles, cycles[c].pc \in OpenPcs, Charged(c)
  PROVE  /\ charges'[Sub(c)][End(c)] > 0
         /\ \A s \in Subs, e \in Dates : charges'[s][e] >= charges[s][e]
         /\ \A s \in Subs, e \in Dates :
              s # Sub(c) \/ e # End(c) => charges'[s][e] = charges[s][e]
BY OpenCycle, SMT DEF CycleTypeOK, Charged

\* updateMany leaves alone every payment that has not FAILED.
LEMMA RetryingSet ==
  ASSUME TablesTypeOK, CycleTypeOK, NEW c \in Cycles, MarkRetrying(c)
  PROVE  \A s \in Subs, e \in Dates :
           \/ payments'[s][e] = payments[s][e]
           \/ payments[s][e] = "FAILED" /\ payments'[s][e] = "RETRYING"
<1>1. Sub(c) \in Subs
  BY OpenCycle DEF MarkRetrying, At, OpenPcs
<1>. QED
  BY <1>1, SMT DEF MarkRetrying, TablesTypeOK

-----------------------------------------------------------------------------
(* A charge leaves its trace.                                              *)

TraceInv == RailsKept /\ WrittenAhead /\ ChargeLeavesTrace

LEMMA InitTrace == Init => TraceInv /\ SentIsWritten
BY SMT DEF Init, TablesInit, CycleInit, TraceInv, RailsKept, WrittenAhead, SentIsWritten,
           ChargeLeavesTrace, IdleCycle, LivePcs, At, Sub, End, Row

LEMMA BillingTrace ==
  ASSUME TypeOK, TraceInv, NEW c \in Cycles, Billing(c)
  PROVE  TraceInv'
<1> USE DEF TraceInv, RailsKept, WrittenAhead, ChargeLeavesTrace, At, Row, tables
<1>. TablesTypeOK /\ CycleTypeOK
  BY DEF TypeOK
<1>o. cycles[c].pc \in OpenPcs => Sub(c) \in Subs /\ End(c) \in Dates
  BY OpenCycle
<1>d. \A d \in Cycles : cycles[d].pc \in LivePcs => Sub(d) \in Subs /\ End(d) \in Dates
  BY OpenCycle DEF OpenPcs
<1>1. ASSUME NEW s \in Subs, Start(c, s) PROVE TraceInv'
  BY <1>1, SMT DEF Start, CycleTypeOK, LivePcs, Sub, End, Rail
<1>2. ASSUME NEW pc \in Pcs, Goto(c, pc), UNCHANGED <<payments, charges>>,
             pc \in LivePcs => pc = "processing" /\ Rail(Sub(c)) = "soroban",
             pc = "mock" => Rail(Sub(c)) = "test"
      PROVE  TraceInv'
  <2>1. RailsKept'
    BY <1>2, Gone, SMT DEF Sub, Rail
  <2>2. WrittenAhead'
    BY <1>2, Gone, SMT DEF Sub, End
  <2>3. ChargeLeavesTrace'
    BY <1>2
  <2>. QED
    BY <2>1, <2>2, <2>3
<1>3. CASE FindPayment(c) \/ CreatePayment(c)
  <2>1. CASE UNCHANGED payments
    <3>1. /\ \E pc \in {"advanceOnly", "create", "dispatch", "threw"} : Goto(c, pc)
          /\ UNCHANGED charges
      BY <1>3, Zenon DEF FindPayment, CreatePayment
    <3>. QED
      BY <1>2, <2>1, <3>1, SMT DEF Pcs, OpenPcs, LivePcs
  <2>2. CASE payments' # payments
    <3>1. /\ CreatePayment(c) /\ Row(c) = "NONE" /\ cycles[c].pc \in OpenPcs
          /\ SetRow(c, "PENDING") /\ Goto(c, "dispatch") /\ UNCHANGED charges
      BY <1>3, <2>2 DEF FindPayment, CreatePayment, OpenPcs
    <3>2. RailsKept'
      BY <3>1, Gone, SMT DEF LivePcs, Sub, Rail
    <3>3. \A s \in Subs, e \in Dates :
            payments[s][e] \notin {"NONE", "PENDING"} => payments'[s][e] = payments[s][e]
      BY <3>1, RowSet
    <3>4. ChargeLeavesTrace'
      BY <3>1, <3>3
    <3>5. WrittenAhead'
      BY <1>d, <3>1, <3>3, Gone, SMT DEF LivePcs, Sub, End
    <3>. QED
      BY <3>2, <3>4, <3>5
  <2>. QED
    BY <2>1, <2>2
<1>4. CASE Dispatch(c)
  <2>1. UNCHANGED <<payments, charges>>
    BY <1>4 DEF Dispatch
  <2>2. \/ \E pc \in {"failed", "advance"} : Goto(c, pc)
        \/ Goto(c, "mock") /\ Rail(Sub(c)) = "test"
        \/ Goto(c, "processing") /\ Rail(Sub(c)) = "soroban"
    BY <1>4 DEF Dispatch, Rail
  <2>. QED
    BY <1>2, <2>1, <2>2, SMT DEF Pcs, OpenPcs, LivePcs
<1>5. ASSUME NEW status \in PaymentStatuses \ {"NONE", "PENDING"},
             NEW pc \in {"advance", "invoke", "failed"},
             cycles[c].pc \in OpenPcs, pc = "invoke" => cycles[c].pc = "processing",
             SetRow(c, status), Goto(c, pc), UNCHANGED charges
      PROVE  TraceInv'
  <2>1. RailsKept'
    BY <1>5, Gone, SMT DEF LivePcs, Sub, Rail
  <2>2. /\ payments'[Sub(c)][End(c)] = status
        /\ \A s \in Subs, e \in Dates :
             s # Sub(c) \/ e # End(c) => payments'[s][e] = payments[s][e]
    BY <1>5, RowSet
  <2>3. WrittenAhead'
    BY <1>d, <1>5, <2>2, Gone, SMT DEF LivePcs, Sub, End
  <2>4. ChargeLeavesTrace'
    BY <1>o, <1>5, <2>2, SMT
  <2>. QED
    BY <2>1, <2>3, <2>4
<1>6. CASE MarkMock(c) \/ MarkProcessing(c) \/ RecordPaid(c) \/ RecordFailure(c)
  BY <1>5, <1>6, SMT DEF MarkMock, MarkProcessing, RecordPaid, RecordFailure, PaymentStatuses,
                    OpenPcs, LivePcs
<1>7. ASSUME NEW pc \in {"recordPaid", "recordFailed", "recordError"}, At(c, "invoke"),
             Goto(c, pc), UNCHANGED payments, Charged(c) \/ UNCHANGED charges
      PROVE  TraceInv'
  <2>1. cycles[c].pc \in LivePcs \ {"processing"} /\ cycles[c].pc \in OpenPcs
    BY <1>7 DEF LivePcs, OpenPcs
  <2>2. RailsKept'
    BY <1>7, <2>1, Gone, SMT DEF LivePcs, Sub, Rail
  <2>3. WrittenAhead'
    BY <1>7, <2>1, Gone, SMT DEF LivePcs, Sub, End
  <2>4. Row(c) \notin {"NONE", "PENDING"}
    BY <2>1
  <2>5. ChargeLeavesTrace'
    BY <1>o, <1>7, <2>1, <2>4, ChargeSet, SMT
  <2>. QED
    BY <2>2, <2>3, <2>5
<1>8. CASE \/ InvokePaid(c) \/ InvokeFailed(c) \/ InvokeError(c)
           \/ InvokeLate(c) \/ InvokeUnread(c)
  BY <1>7, <1>8 DEF InvokePaid, InvokeFailed, InvokeError, InvokeLate, InvokeUnread
<1>10. CASE Advance(c) \/ Emit(c) \/ EnterGrace(c) \/ StoreRetry(c)
  BY <1>2, <1>10, SMT DEF Advance, Emit, EnterGrace, StoreRetry, Pcs, OpenPcs, LivePcs
<1>11. CASE MarkRetrying(c)
  <2>1. Goto(c, "storeRetry") /\ UNCHANGED charges
    BY <1>11 DEF MarkRetrying
  <2>2. RailsKept'
    BY <2>1, Gone, SMT DEF LivePcs, Sub, Rail
  <2>3. \A s \in Subs, e \in Dates :
          payments[s][e] \notin {"NONE", "PENDING"} => payments'[s][e] \notin {"NONE", "PENDING"}
    BY <1>11, RetryingSet
  <2>4. ChargeLeavesTrace'
    BY <2>1, <2>3
  <2>5. WrittenAhead'
    BY <1>d, <2>1, <2>3, Gone, SMT DEF LivePcs, Sub, End
  <2>. QED
    BY <2>2, <2>4, <2>5
<1>12. CASE Reject(c)
  <2>1. CASE cycles[c].pc \in {"invoke", "recordPaid", "recordFailed"}
    <3>1. Goto(c, "recordError")
      BY <1>12, <2>1 DEF Reject, Catch
    <3>. QED
      BY <1>12, <2>1, <3>1, Gone, SMT DEF Reject, LivePcs, CycleTypeOK, Sub, End, Rail
  <2>2. CASE cycles[c].pc \notin {"invoke", "recordPaid", "recordFailed"}
    <3>1. PICK pc \in {"failed", "threw"} : Goto(c, pc)
      BY <1>12, <2>2, Zenon DEF Reject, Catch
    <3>. QED
      BY <1>2, <1>12, <3>1, SMT DEF Reject, Pcs, OpenPcs, LivePcs
  <2>. QED
    BY <2>1, <2>2
<1>13. CASE Crash(c) \/ Finish(c)
  BY <1>13, SMT DEF Crash, Finish, IdleCycle, LivePcs, CycleTypeOK, Sub, End, Rail
<1>. QED
  BY <1>1, <1>3, <1>4, <1>6, <1>8, <1>10, <1>11, <1>12, <1>13
     DEF Billing, CycleStep, CycleFault

\* Outside the cycles and the chain nothing touches payments, charges, what is adrift
\* or the calls in progress.
LEMMA MoneyAtRest ==
  ASSUME [Next]_vars, \A c \in Cycles : ~Billing(c), ~Settling
  PROVE  UNCHANGED <<payments, charges, cycles, adrift>>
<1>1. CASE \E w \in Sweepers : Sweeping(w)
  BY <1>1 DEF Sweeping, SweepStep, FindExpired, CancelExpired, EmitCancelled, AbortSweep,
              cycleVars, tables
<1>2. CASE Serving
  BY <1>2 DEF Serving, ApiStep, CreateSubscription, ReadForUpdate, CancelNow, CancelAtEnd,
              Pause, Resume, Reply, cycleVars, tables
<1>3. CASE Passing \/ UNCHANGED vars
  BY <1>3 DEF Passing, cycleVars, tables, vars
<1>. QED
  BY <1>1, <1>2, <1>3 DEF Next

\* No call takes a row back to PENDING.
LEMMA RowsStayWritten ==
  ASSUME TypeOK, NEW c \in Cycles, Billing(c),
         NEW s \in Subs, NEW e \in Dates, payments[s][e] \notin {"NONE", "PENDING"}
  PROVE  payments'[s][e] \notin {"NONE", "PENDING"}
<1>. TablesTypeOK /\ CycleTypeOK
  BY DEF TypeOK
<1>1. CASE UNCHANGED payments
  BY <1>1
<1>2. CASE CreatePayment(c)
  <2>1. CASE Row(c) = "NONE"
    <3>1. SetRow(c, "PENDING") /\ cycles[c].pc \in OpenPcs
      BY <1>2, <2>1 DEF CreatePayment, At, OpenPcs
    <3>2. s # Sub(c) \/ e # End(c)
      BY <2>1 DEF Row
    <3>. QED
      BY <3>1, <3>2, RowSet
  <2>2. CASE Row(c) # "NONE"
    BY <1>2, <2>2 DEF CreatePayment
  <2>. QED
    BY <2>1, <2>2
<1>3. CASE MarkMock(c) \/ MarkProcessing(c) \/ RecordPaid(c) \/ RecordFailure(c)
  <2>1. PICK status \in {"SUCCESS", "PROCESSING", "FAILED"} :
          SetRow(c, status) /\ cycles[c].pc \in OpenPcs
    BY <1>3 DEF MarkMock, MarkProcessing, RecordPaid, RecordFailure, At, OpenPcs, LivePcs
  <2>2. payments'[s][e] \in {status, payments[s][e]}
    BY <2>1, RowSet
  <2>. QED
    BY <2>1, <2>2
<1>4. CASE MarkRetrying(c)
  BY <1>4, RetryingSet
<1>. QED
  BY <1>1, <1>2, <1>3, <1>4
     DEF Billing, CycleStep, CycleFault, Start, FindPayment, Dispatch, InvokePaid, InvokeFailed,
         InvokeError, InvokeLate, InvokeUnread, Advance, Emit, EnterGrace, StoreRetry, Reject,
         Crash, Finish, tables

\* Nor is a transaction sent adrift before its row has left PENDING.
LEMMA BillingSent ==
  ASSUME TypeOK, TraceInv, SentIsWritten, NEW c \in Cycles, Billing(c)
  PROVE  SentIsWritten'
<1> SUFFICES ASSUME NEW s \in Subs, NEW e \in Dates, adrift'[s][e] > 0
             PROVE  payments'[s][e] \notin {"NONE", "PENDING"}
  BY DEF SentIsWritten
<1>1. CASE adrift'[s][e] = adrift[s][e]
  BY <1>1, RowsStayWritten DEF SentIsWritten
<1>2. CASE adrift'[s][e] # adrift[s][e]
  <2>1. At(c, "invoke") /\ payments' = payments /\ s = Sub(c) /\ e = End(c)
    BY <1>2, AdriftSet DEF TypeOK
  <2>2. Row(c) \notin {"NONE", "PENDING"}
    BY <2>1 DEF TraceInv, WrittenAhead, LivePcs, At
  <2>. QED
    BY <2>1, <2>2 DEF Row
<1>. QED
  BY <1>1, <1>2

\* A transaction adrift that pays, or lapses, finds its row written.
LEMMA SettlingTrace ==
  ASSUME TypeOK, TraceInv, SentIsWritten, Settling
  PROVE  TraceInv' /\ SentIsWritten'
<1>1. PICK s \in Subs, e \in Dates : Land(s, e) \/ Lapse(s, e)
  BY DEF Settling, ChainStep
<1>2. UNCHANGED <<payments, cycles>> /\ adrift[s][e] > 0
  BY <1>1, SettlingType DEF Land, Lapse
<1>3. \A t \in Subs, d \in Dates :
        t # s \/ d # e => charges'[t][d] = charges[t][d] /\ adrift'[t][d] = adrift[t][d]
  BY <1>1, SMT DEF Land, Lapse, TypeOK, CycleTypeOK
<1>4. payments[s][e] \notin {"NONE", "PENDING"}
  BY <1>2 DEF SentIsWritten
<1>5. RailsKept' /\ WrittenAhead'
  BY <1>2 DEF TraceInv, RailsKept, WrittenAhead, At, Row, Rail, Sub, End
<1>6. ChargeLeavesTrace' /\ SentIsWritten'
  BY <1>2, <1>3, <1>4 DEF TraceInv, ChargeLeavesTrace, SentIsWritten
<1>. QED
  BY <1>5, <1>6 DEF TraceInv

LEMMA NextTrace ==
  TypeOK /\ TraceInv /\ SentIsWritten /\ [Next]_vars => TraceInv' /\ SentIsWritten'
<1> SUFFICES ASSUME TypeOK, TraceInv, SentIsWritten, [Next]_vars
             PROVE  TraceInv' /\ SentIsWritten'
  OBVIOUS
<1>1. CASE \E c \in Cycles : Billing(c)
  BY <1>1, BillingTrace, BillingSent
<1>2. CASE Settling
  BY <1>2, SettlingTrace
<1>3. CASE (\A c \in Cycles : ~Billing(c)) /\ ~Settling
  BY <1>3, MoneyAtRest
     DEF TraceInv, RailsKept, WrittenAhead, ChargeLeavesTrace, SentIsWritten, At, Row, Rail,
         Sub, End
<1>. QED
  BY <1>1, <1>2, <1>3

\* A charge on chain always has a payment row beyond PENDING: executeSorobanBilling
\* writes PROCESSING before it invokes the contract, and no race takes the row back.
THEOREM ChargesTraced == Spec => []ChargeLeavesTrace
<1>1. TypeOK /\ TraceInv /\ SentIsWritten /\ [Next]_vars
        => (TypeOK /\ TraceInv /\ SentIsWritten)'
  BY NextTypeOK, NextTrace
<1>2. TraceInv => ChargeLeavesTrace
  BY DEF TraceInv
<1>. QED
  BY InitTypeOK, InitTrace, <1>1, <1>2, PTL DEF Spec

-----------------------------------------------------------------------------
(* A closed subscription stays closed.                                     *)

\* A call working on another subscription leaves the rows of s alone.
LEMMA BillingAside ==
  ASSUME TypeOK, NEW s \in Subs, NEW c \in Cycles, Billing(c),
         cycles[c].pc \in OpenPcs, Sub(c) # s
  PROVE  /\ subs'[s] = subs[s] /\ payments'[s] = payments[s] /\ charges'[s] = charges[s]
         /\ \A e \in Dates : adrift'[s][e] = adrift[s][e]
         /\ cycles'[c].pc \in OpenPcs => cycles'[c].sub # s
         /\ \A d \in Cycles \ {c} : cycles'[d] = cycles[d]
<1>. TablesTypeOK /\ CycleTypeOK /\ Sub(c) \in Subs /\ End(c) \in Dates
  BY OpenCycle DEF TypeOK
<1>. cycles[c].pc \notin {"idle", "returned", "threw"}
  BY SMT DEF OpenPcs, LivePcs
<1>1. /\ subs'[s] = subs[s] /\ payments'[s] = payments[s] /\ charges'[s] = charges[s]
  <2>1. CASE CycleStep(c)
    BY <2>1, SMT DEF CycleStep, FindPayment, CreatePayment, Dispatch, MarkMock, MarkProcessing,
         InvokePaid, InvokeFailed, InvokeError, RecordPaid, RecordFailure, Advance, Emit,
         EnterGrace, MarkRetrying, StoreRetry, SetRow, Charged, tables, TablesTypeOK, CycleTypeOK
  <2>2. CASE CycleFault(c) \/ Crash(c)
    BY <2>2, SMT DEF CycleFault, InvokeLate, InvokeUnread, Reject, Crash, tables
  <2>. QED
    BY <2>1, <2>2 DEF Billing, Start, Finish, At
<1>2. \/ cycles' = [cycles EXCEPT ![c] = IdleCycle]
      \/ \E pc : Goto(c, pc)
  <2>1. CASE CycleStep(c)
    BY <2>1 DEF CycleStep, FindPayment, CreatePayment, Dispatch, MarkMock, MarkProcessing,
         InvokePaid, InvokeFailed, InvokeError, RecordPaid, RecordFailure, Advance, Emit,
         EnterGrace, MarkRetrying, StoreRetry
  <2>2. CASE CycleFault(c) \/ Crash(c)
    BY <2>2 DEF CycleFault, InvokeLate, InvokeUnread, Reject, Crash
  <2>. QED
    BY <2>1, <2>2 DEF Billing, Start, Finish, At
<1>3. IdleCycle.pc \notin OpenPcs
  BY DEF IdleCycle, OpenPcs, LivePcs
<1>4. /\ cycles'[c].pc \in OpenPcs => cycles'[c].sub # s
      /\ \A d \in Cycles \ {c} : cycles'[d] = cycles[d]
  BY <1>2, <1>3, Gone, SMT DEF CycleTypeOK, Sub
<1>. QED
  BY <1>1, <1>4, AdriftSet

LEMMA ClosedStep ==
  ASSUME TypeOK, NEW s \in Subs, Closed(s), [Next]_vars
  PROVE  Closed(s)' /\ charges'[s] = charges[s] /\ payments'[s] = payments[s]
<1> USE DEF Closed, Settled
<1>. TablesTypeOK /\ CycleTypeOK /\ SweepTypeOK /\ ApiTypeOK
  BY DEF TypeOK
<1>1. ASSUME NEW c \in Cycles, Billing(c)
      PROVE  Closed(s)' /\ charges'[s] = charges[s] /\ payments'[s] = payments[s]
  <2>. UNCHANGED requests
    BY <1>1 DEF Billing
  <2>1. CASE cycles[c].pc \in OpenPcs
    BY <1>1, <2>1, BillingAside, SMT DEF Sub, Pending
  <2>2. CASE \E t \in Subs : Start(c, t)
    <3>1. PICK t \in Subs : Start(c, t)
      BY <2>2
    <3>2. cycles'[c].pc \in OpenPcs => cycles'[c].sub # s
      BY <3>1, SMT DEF Start, CycleTypeOK, OpenPcs, LivePcs
    <3>3. \A d \in Cycles \ {c} : cycles'[d] = cycles[d]
      BY <3>1, SMT DEF Start, CycleTypeOK
    <3>. QED
      BY <3>1, <3>2, <3>3 DEF Start, tables, Sub, Pending
  <2>3. CASE cycles[c].pc \notin OpenPcs /\ (Finish(c) \/ Crash(c))
    <3>1. UNCHANGED <<subs, payments, charges, adrift>>
      BY <2>3 DEF Finish, Crash, tables, At, OpenPcs, LivePcs
    <3>. QED
      BY <2>3, <3>1, SMT DEF Finish, Crash, IdleCycle, OpenPcs, LivePcs, CycleTypeOK, Sub, Pending
  <2>. QED
    BY <1>1, <2>1, <2>2, <2>3, SMT
       DEF Billing, CycleStep, CycleFault, FindPayment, CreatePayment, Dispatch, MarkMock,
           MarkProcessing, InvokePaid, InvokeFailed, InvokeError, InvokeLate, InvokeUnread,
           RecordPaid, RecordFailure, Advance, Emit, EnterGrace, MarkRetrying, StoreRetry,
           Reject, At, OpenPcs, LivePcs
<1>2. ASSUME NEW w \in Sweepers, Sweeping(w)
      PROVE  Closed(s)' /\ charges'[s] = charges[s] /\ payments'[s] = payments[s]
  <2>1. UNCHANGED <<payments, cycles, charges, adrift, requests>>
    BY <1>2 DEF Sweeping, SweepStep, FindExpired, CancelExpired, EmitCancelled, AbortSweep,
                cycleVars, tables
  <2>2. subs'[s].status = "CANCELLED"
    BY <1>2, SMT DEF Sweeping, SweepStep, FindExpired, CancelExpired, EmitCancelled,
                     AbortSweep, tables, TablesTypeOK, Subscription
  <2>. QED
    BY <2>1, <2>2 DEF Sub, Pending
<1>3. CASE Serving
  <2>1. UNCHANGED <<payments, cycles, charges, adrift>>
    BY <1>3 DEF Serving, ApiStep, CreateSubscription, ReadForUpdate, CancelNow, CancelAtEnd,
                Pause, Resume, Reply, cycleVars, tables
  <2>2. CASE \E t \in Subs, trial \in Trials : CreateSubscription(t, trial)
    BY <2>1, <2>2, SMT DEF CreateSubscription, Exists, Sub, Pending, TablesTypeOK
  <2>3. CASE \E r \in Requests, op \in Ops, t \in Subs : ReadForUpdate(r, op, t)
    BY <2>1, <2>3, SMT DEF ReadForUpdate, tables, Sub, Pending, ApiTypeOK
  <2>4. ASSUME NEW r \in Requests, CancelNow(r) \/ CancelAtEnd(r) \/ Pause(r) \/ Resume(r)
        PROVE  Closed(s)'
    <3>1. requests' = [requests EXCEPT ![r] = NoRequest] /\ requests[r].sub \in Subs
      BY <2>4, PendingRequest DEF CancelNow, CancelAtEnd, Pause, Resume, Reply
    <3>2. subs'[s].status = "CANCELLED"
      <4>1. CASE requests[r].sub # s
        BY <2>4, <3>1, <4>1, SMT DEF CancelNow, CancelAtEnd, Pause, Resume, Reply, TablesTypeOK
      <4>2. CASE requests[r].sub = s
        <5>1. CancelAtEnd(r) => requests[r].status = "CANCELLED"
          BY <4>2 DEF CancelAtEnd
        <5>2. ASSUME NEW row, row.status = "CANCELLED", Reply(r, row)
              PROVE  subs'[s].status = "CANCELLED"
          BY <4>2, <5>2 DEF Reply, TablesTypeOK
        <5>3. subs[s].status = "CANCELLED" /\ subs[s] \in Subscription
          BY DEF TablesTypeOK
        <5>4. /\ [subs[s] EXCEPT !.cancelAtEnd = FALSE, !.status = "CANCELLED"].status = "CANCELLED"
              /\ [subs[s] EXCEPT !.cancelAtEnd = TRUE, !.status = "CANCELLED"].status = "CANCELLED"
              /\ [subs[s] EXCEPT !.paused = TRUE].status = "CANCELLED"
              /\ [subs[s] EXCEPT !.paused = FALSE, !.start = now,
                     !.end = NextPeriod(now)].status = "CANCELLED"
          BY <5>3, Zenon DEF Subscription
        <5>. QED
          BY <2>4, <4>2, <5>1, <5>2, <5>4 DEF CancelNow, CancelAtEnd, Pause, Resume
      <4>. QED
        BY <4>1, <4>2
    <3>. QED
      BY <2>1, <3>1, <3>2, SMT DEF Sub, Pending, ApiTypeOK
  <2>. QED
    BY <1>3, <2>1, <2>2, <2>3, <2>4 DEF Serving, ApiStep
<1>4. CASE Passing \/ UNCHANGED vars
  BY <1>4 DEF Passing, tables, cycleVars, vars, Sub, Pending
<1>5. CASE Settling
  <2>1. PICK t \in Subs, e \in Dates : Land(t, e) \/ Lapse(t, e)
    BY <1>5 DEF Settling, ChainStep
  <2>2. t # s
    BY <2>1, SMT DEF Land, Lapse
  <2>3. charges'[s] = charges[s] /\ adrift'[s] = adrift[s]
    BY <2>1, <2>2, SMT DEF Land, Lapse, CycleTypeOK
  <2>. QED
    BY <1>5, <2>3, SettlingType DEF Sub, Pending
<1>. QED
  BY <1>1, <1>2, <1>3, <1>4, <1>5 DEF Next

\* Cancellation is final once the calls that read the subscription before it, and the
\* transactions sent before it, have ended: no later cycle, sweep, resume or cancel at period end reopens or bills it.
THEOREM CancelledForGood == Spec => ClosedStaysClosed
<1>1. TypeOK /\ [Next]_vars =>
        [\A s \in Subs : Closed(s) =>
           Closed(s)' /\ charges'[s] = charges[s] /\ payments'[s] = payments[s]]_vars
  BY ClosedStep
<1>. QED
  BY TypeCorrect, <1>1, PTL DEF Spec, ClosedStaysClosed

-----------------------------------------------------------------------------
(* Grace periods.                                                          *)

\* A billing call either leaves the status alone or writes one with its grace end.
LEMMA BillingGrace ==
  ASSUME TypeOK, GraceHasEnd, NEW c \in Cycles, Billing(c)
  PROVE  GraceHasEnd'
<1>. TablesTypeOK /\ CycleTypeOK
  BY DEF TypeOK
<1>1. CASE UNCHANGED subs
  BY <1>1 DEF GraceHasEnd
<1>2. CASE Advance(c)
  <2>1. Sub(c) \in Subs
    BY <1>2, OpenCycle DEF Advance, At, OpenPcs
  <2>2. subs'[Sub(c)].status = "ACTIVE" /\ \A s \in Subs \ {Sub(c)} : subs'[s] = subs[s]
    BY <1>2, <2>1, SMT DEF Advance, TablesTypeOK, Subscription
  <2>. QED
    BY <2>1, <2>2 DEF GraceHasEnd
<1>3. CASE EnterGrace(c)
  <2>1. Sub(c) \in Subs
    BY <1>3, OpenCycle DEF EnterGrace, At, OpenPcs
  <2>2. /\ subs'[Sub(c)].grace = now + Grace
        /\ \A s \in Subs \ {Sub(c)} : subs'[s] = subs[s]
    BY <1>3, <2>1, SMT DEF EnterGrace, TablesTypeOK, Subscription
  <2>3. now + Grace # NoTime
    BY TablesAssumption, SMT DEF TablesTypeOK, NoTime
  <2>. QED
    BY <2>1, <2>2, <2>3 DEF GraceHasEnd
<1>4. CASE StoreRetry(c)
  <2>1. \A s \in Subs : /\ subs'[s].status = subs[s].status /\ subs'[s].grace = subs[s].grace
                        /\ subs'[s].cancelAtEnd = subs[s].cancelAtEnd
    BY <1>4, SMT DEF StoreRetry, TablesTypeOK, Subscription
  <2>. QED
    BY <2>1 DEF GraceHasEnd
<1>. QED
  BY <1>1, <1>2, <1>3, <1>4
  DEF Billing, Start, CycleStep, CycleFault, Crash, Finish, FindPayment, CreatePayment, Dispatch,
      MarkMock, MarkProcessing, InvokePaid, InvokeFailed, InvokeError, InvokeLate, InvokeUnread,
      RecordPaid, RecordFailure, Emit, MarkRetrying, Reject, tables

\* A route writes PAST_DUE only in CancelAtEnd, together with the mark.
LEMMA ServingGrace ==
  ASSUME TypeOK, GraceHasEnd, Serving
  PROVE  GraceHasEnd'
<1>. TablesTypeOK /\ ApiTypeOK
  BY DEF TypeOK
<1>1. ASSUME NEW s \in Subs, NEW trial \in Trials, CreateSubscription(s, trial)
      PROVE  GraceHasEnd'
  <2>1. subs'[s].status # "PAST_DUE" /\ \A x \in Subs \ {s} : subs'[x] = subs[x]
    BY <1>1, SMT DEF CreateSubscription, TablesTypeOK, NoSubscription
  <2>. QED
    BY <2>1 DEF GraceHasEnd
<1>2. ASSUME NEW r \in Requests, NEW op \in Ops, NEW s \in Subs, ReadForUpdate(r, op, s)
      PROVE  GraceHasEnd'
  BY <1>2 DEF ReadForUpdate, tables, GraceHasEnd
<1>3. ASSUME NEW r \in Requests, NEW row \in Subscription, Reply(r, row), requests[r].sub \in Subs,
             row.status = "PAST_DUE" => row.grace # NoTime \/ row.cancelAtEnd
      PROVE  GraceHasEnd'
  <2>1. subs'[requests[r].sub] = row /\ \A x \in Subs \ {requests[r].sub} : subs'[x] = subs[x]
    BY <1>3 DEF Reply, TablesTypeOK
  <2>. QED
    BY <1>3, <2>1 DEF GraceHasEnd
<1>4. ASSUME NEW r \in Requests, CancelNow(r) \/ CancelAtEnd(r) \/ Pause(r) \/ Resume(r)
      PROVE  GraceHasEnd'
  <2>. DEFINE old == subs[requests[r].sub]
  <2>1. /\ requests[r].sub \in Subs /\ requests[r].status \in Statuses
        /\ old \in Subscription
    BY <1>4, PendingRequest DEF CancelNow, CancelAtEnd, Pause, Resume, TablesTypeOK
  <2>2. old.status = "PAST_DUE" => old.grace # NoTime \/ old.cancelAtEnd
    BY <2>1 DEF GraceHasEnd
  <2>. HIDE DEF old
  <2>3. CASE CancelNow(r)
    <3>. DEFINE row == [old EXCEPT !.cancelAtEnd = FALSE, !.status = "CANCELLED"]
    <3>1. row \in Subscription
      BY <2>1, Zenon DEF Subscription, Statuses
    <3>2. row.status # "PAST_DUE"
      BY <2>1, SMT DEF Subscription
    <3>3. Reply(r, row)
      BY <2>3 DEF CancelNow, old
    <3>. HIDE DEF row
    <3>. QED
      BY <1>3, <2>1, <3>1, <3>2, <3>3
  <2>4. CASE CancelAtEnd(r)
    <3>. DEFINE row == [old EXCEPT !.cancelAtEnd = TRUE, !.status = requests[r].status]
    <3>1. row \in Subscription
      BY <2>1, Zenon DEF Subscription
    <3>2. row.cancelAtEnd
      BY <2>1, SMT DEF Subscription
    <3>3. Reply(r, row)
      BY <2>4 DEF CancelAtEnd, old
    <3>. HIDE DEF row
    <3>. QED
      BY <1>3, <2>1, <3>1, <3>2, <3>3
  <2>5. CASE Pause(r)
    <3>. DEFINE row == [old EXCEPT !.paused = TRUE]
    <3>1. row \in Subscription
      BY <2>1, Zenon DEF Subscription
    <3>2. row.status = old.status /\ row.grace = old.grace /\ row.cancelAtEnd = old.cancelAtEnd
      BY <2>1, SMT DEF Subscription
    <3>3. Reply(r, row)
      BY <2>5 DEF Pause, old
    <3>. HIDE DEF row
    <3>. QED
      BY <1>3, <2>1, <2>2, <3>1, <3>2, <3>3
  <2>6. CASE Resume(r)
    <3>. DEFINE row == [old EXCEPT !.paused = FALSE, !.start = now, !.end = NextPeriod(now)]
    <3>1. row \in Subscription
      <4>1. now \in Dates \cup {NoTime} /\ NextPeriod(now) \in Dates
        BY TablesAssumption, SMT DEF TablesTypeOK, Dates, NextPeriod
      <4>. QED
        BY <2>1, <4>1, Zenon DEF Subscription
    <3>2. row.status = old.status /\ row.grace = old.grace /\ row.cancelAtEnd = old.cancelAtEnd
      BY <2>1, SMT DEF Subscription
    <3>3. Reply(r, row)
      BY <2>6 DEF Resume, old
    <3>. HIDE DEF row
    <3>. QED
      BY <1>3, <2>1, <2>2, <3>1, <3>2, <3>3
  <2>. QED
    BY <1>4, <2>3, <2>4, <2>5, <2>6
<1>. QED
  BY <1>1, <1>2, <1>4 DEF Serving, ApiStep

\* A subscription that is past due has a grace end or is marked for cancellation, for
\* any number of calls, sweeps and requests: the sweep misses no others.
THEOREM GraceIsBounded == Spec => []GraceHasEnd
<1>1. Init => GraceHasEnd
  BY DEF Init, TablesInit, GraceHasEnd, NoSubscription
<1>2. ASSUME TypeOK, GraceHasEnd, [Next]_vars PROVE GraceHasEnd'
  <2>3. CASE Settling
    BY <1>2, <2>3, SettlingType DEF GraceHasEnd
  <2>1. ASSUME NEW w \in Sweepers, Sweeping(w) PROVE GraceHasEnd'
    <3>1. CASE UNCHANGED subs
      BY <1>2, <3>1 DEF GraceHasEnd
    <3>2. ASSUME NEW s \in Subs, CancelExpired(w, s) PROVE GraceHasEnd'
      <4>1. subs \in [Subs -> Subscription] /\ subs[s] \in Subscription
        BY <1>2 DEF TypeOK, TablesTypeOK
      <4>2. subs' = [subs EXCEPT ![s].status = "CANCELLED"]
        BY <3>2 DEF CancelExpired
      <4>3. subs'[s].status = "CANCELLED" /\ \A x \in Subs \ {s} : subs'[x] = subs[x]
        BY <4>1, <4>2, SMT DEF Subscription
      <4>. QED
        BY <1>2, <4>3 DEF GraceHasEnd
    <3>. QED
      BY <1>2, <2>1, <3>1, <3>2
      DEF Sweeping, SweepStep, FindExpired, EmitCancelled, AbortSweep, tables
  <2>2. CASE Passing \/ UNCHANGED vars
    BY <1>2, <2>2 DEF Passing, tables, vars, GraceHasEnd
  <2>. QED
    BY <1>2, <2>1, <2>2, <2>3, BillingGrace, ServingGrace DEF Next
<1>. QED
  BY InitTypeOK, NextTypeOK, <1>1, <1>2, PTL DEF Spec

-----------------------------------------------------------------------------
(* Rows exist.                                                             *)

LEMMA InitRows == Init => RowsExist
BY SMT DEF Init, TablesInit, CycleInit, SweepInit, ApiInit, RowsExist, NoSubscription, Exists,
           IdleCycle, IdleSweep, NoRequest, OpenPcs, LivePcs, NoTime

\* A row that is there is never removed, so what works on it goes on doing so.
LEMMA RowsKept ==
  ASSUME RowsExist, TypeOK,
         \A s \in Subs : Exists(s) => Exists(s)',
         \A s \in Subs : Exists(s)' <=> subs'[s].start # NoTime,
         \A c \in Cycles : cycles'[c].pc \in OpenPcs =>
           \/ cycles[c].pc \in OpenPcs /\ cycles'[c].sub = cycles[c].sub
           \/ cycles'[c].sub \in Subs /\ Exists(cycles'[c].sub),
         \A w \in Sweepers : \A s \in sweeps'[w].todo : s \in Subs /\ Exists(s),
         \A r \in Requests : \/ requests'[r] = NoRequest
                             \/ requests'[r] = requests[r]
                             \/ /\ requests'[r].sub \in Subs
                                /\ Exists(requests'[r].sub)
                                /\ requests'[r].status # "NONE"
  PROVE  RowsExist'
<1>1. \A c \in Cycles : cycles'[c].pc \in OpenPcs => Exists(Sub(c))'
  BY OpenCycle, SMT DEF RowsExist, TypeOK, Sub, Exists
<1>2. \A r \in Requests : requests[r] # NoRequest => requests[r].sub \in Subs
  BY SMT DEF TypeOK, ApiTypeOK, Request
<1>. QED
  BY <1>1, <1>2 DEF RowsExist, Exists

LEMMA BillingRows ==
  ASSUME TypeOK, RowsExist, NEW c \in Cycles, Billing(c)
  PROVE  RowsExist'
<1>. TablesTypeOK /\ CycleTypeOK /\ SweepTypeOK
  BY DEF TypeOK
<1>. /\ \A w \in Sweepers : \A s \in sweeps'[w].todo : s \in Subs /\ Exists(s)
     /\ UNCHANGED requests
  BY SMT DEF Billing, RowsExist, SweepTypeOK
<1>o. cycles[c].pc \in OpenPcs => Sub(c) \in Subs /\ End(c) \in Dates /\ Exists(Sub(c))
  BY OpenCycle DEF RowsExist
<1>1. ASSUME NEW s \in Subs, Start(c, s) PROVE RowsExist'
  <2>1. \A d \in Cycles : cycles'[d].pc \in OpenPcs =>
           \/ cycles[d].pc \in OpenPcs /\ cycles'[d].sub = cycles[d].sub
           \/ cycles'[d].sub \in Subs /\ Exists(cycles'[d].sub)
    BY <1>1, SMT DEF Start, CycleTypeOK
  <2>. QED
    BY <1>1, <2>1, RowsKept DEF Start, tables, RowsExist, Exists
<1>2. ASSUME NEW pc, cycles[c].pc \in OpenPcs, Goto(c, pc), UNCHANGED subs PROVE RowsExist'
  <2>1. \A d \in Cycles : cycles'[d].pc \in OpenPcs =>
           cycles[d].pc \in OpenPcs /\ cycles'[d].sub = cycles[d].sub
    BY <1>2, Gone
  <2>. QED
    BY <1>2, <2>1, RowsKept DEF RowsExist, Exists
<1>3. ASSUME NEW pc, cycles[c].pc \in OpenPcs, Goto(c, pc), NEW row,
             subs' = [subs EXCEPT ![Sub(c)] = row],
             row.status # "NONE", row.start # NoTime
      PROVE  RowsExist'
  <2>1. \A d \in Cycles : cycles'[d].pc \in OpenPcs =>
           cycles[d].pc \in OpenPcs /\ cycles'[d].sub = cycles[d].sub
    BY <1>3, Gone
  <2>2. \A s \in Subs : subs'[s] = IF s = Sub(c) THEN row ELSE subs[s]
    BY <1>3 DEF TablesTypeOK
  <2>. QED
    BY <1>3, <1>o, <2>1, <2>2, RowsKept DEF RowsExist, Exists
<1>4. CASE FindPayment(c) \/ CreatePayment(c) \/ Dispatch(c) \/ MarkMock(c) \/ MarkProcessing(c)
  BY <1>2, <1>4 DEF FindPayment, CreatePayment, Dispatch, MarkMock, MarkProcessing, At, tables,
                    OpenPcs, LivePcs
<1>5. CASE \/ InvokePaid(c) \/ InvokeFailed(c) \/ InvokeError(c)
           \/ InvokeLate(c) \/ InvokeUnread(c)
  BY <1>2, <1>5 DEF InvokePaid, InvokeFailed, InvokeError, InvokeLate, InvokeUnread, At, tables,
                    OpenPcs, LivePcs
<1>6. CASE RecordPaid(c) \/ RecordFailure(c) \/ Emit(c) \/ MarkRetrying(c) \/ Reject(c)
  BY <1>2, <1>6 DEF RecordPaid, RecordFailure, Emit, MarkRetrying, Reject, At, tables,
                    OpenPcs, LivePcs
<1>s. cycles[c].pc \in OpenPcs => subs[Sub(c)] \in Subscription /\ subs[Sub(c)].start # NoTime
                                  /\ subs[Sub(c)].status # "NONE"
  BY <1>o DEF TablesTypeOK, RowsExist, Exists
<1>7. CASE Advance(c)
  <2>. DEFINE row == [subs[Sub(c)] EXCEPT !.status = "ACTIVE", !.start = End(c),
                        !.end = NextPeriod(End(c)), !.retry = 0, !.grace = NoTime]
  <2>1. cycles[c].pc \in OpenPcs
    BY <1>7 DEF Advance, At, OpenPcs
  <2>2. row.status = "ACTIVE" /\ row.start = End(c)
    BY <1>s, <2>1, Zenon DEF Subscription
  <2>3. End(c) # NoTime
    BY <1>o, <2>1, TablesAssumption, SMT DEF Dates, NoTime
  <2>4. subs' = [subs EXCEPT ![Sub(c)] = row]
    BY <1>7 DEF Advance
  <2>. HIDE DEF row
  <2>. QED
    BY <1>3, <1>7, <2>1, <2>2, <2>3, <2>4 DEF Advance
<1>8. CASE EnterGrace(c)
  <2>. DEFINE row == [subs[Sub(c)] EXCEPT !.status = "PAST_DUE", !.retry = Retry(c),
                        !.grace = now + Grace]
  <2>1. cycles[c].pc \in OpenPcs
    BY <1>8 DEF EnterGrace, At, OpenPcs
  <2>2. row.status = "PAST_DUE" /\ row.start = subs[Sub(c)].start
    BY <1>s, <2>1, Zenon DEF Subscription
  <2>3. subs' = [subs EXCEPT ![Sub(c)] = row]
    BY <1>8 DEF EnterGrace
  <2>. HIDE DEF row
  <2>. QED
    BY <1>3, <1>8, <1>s, <2>1, <2>2, <2>3 DEF EnterGrace
<1>9. CASE StoreRetry(c)
  <2>. DEFINE row == [subs[Sub(c)] EXCEPT !.retry = Retry(c)]
  <2>1. cycles[c].pc \in OpenPcs
    BY <1>9 DEF StoreRetry, At, OpenPcs
  <2>2. row.status = subs[Sub(c)].status /\ row.start = subs[Sub(c)].start
    BY <1>s, <2>1, Zenon DEF Subscription
  <2>3. subs' = [subs EXCEPT ![Sub(c)] = row]
    BY <1>9 DEF StoreRetry
  <2>. HIDE DEF row
  <2>. QED
    BY <1>3, <1>9, <1>s, <2>1, <2>2, <2>3 DEF StoreRetry
<1>10. CASE Crash(c) \/ Finish(c)
  <2>1. \A d \in Cycles : cycles'[d].pc \in OpenPcs =>
           cycles[d].pc \in OpenPcs /\ cycles'[d].sub = cycles[d].sub
    BY <1>10, SMT DEF Crash, Finish, IdleCycle, OpenPcs, LivePcs, CycleTypeOK
  <2>. QED
    BY <1>10, <2>1, RowsKept DEF Crash, Finish, tables, RowsExist, Exists
<1>. QED
  BY <1>1, <1>4, <1>5, <1>6, <1>7, <1>8, <1>9, <1>10 DEF Billing, CycleStep, CycleFault

LEMMA SweepingRows ==
  ASSUME TypeOK, RowsExist, NEW w \in Sweepers, Sweeping(w)
  PROVE  RowsExist'
<1>. TablesTypeOK /\ SweepTypeOK /\ UNCHANGED <<cycles, requests>>
  BY DEF TypeOK, Sweeping, cycleVars
<1>. /\ \A c \in Cycles : cycles[c].pc \in OpenPcs => Sub(c) \in Subs
     /\ \A v \in Sweepers : \A s \in sweeps[v].todo : s \in Subs /\ Exists(s)
  BY OpenCycle, SMT DEF TypeOK, SweepTypeOK, RowsExist
<1>1. CASE FindExpired(w)
  <2>1. \A v \in Sweepers : \A s \in sweeps'[v].todo : s \in Subs /\ Exists(s)
    BY <1>1, SMT DEF FindExpired, SweepTypeOK, Expired, Exists
  <2>. QED
    BY <1>1, <2>1, RowsKept DEF FindExpired, tables, RowsExist, Exists
<1>2. ASSUME NEW s \in Subs, CancelExpired(w, s) PROVE RowsExist'
  <2>1. \A v \in Sweepers : \A t \in sweeps'[v].todo : t \in Subs /\ Exists(t)
    BY <1>2, SMT DEF CancelExpired, SweepTypeOK
  <2>2. Exists(s) /\ subs[s] \in Subscription
    BY <1>2 DEF CancelExpired, TablesTypeOK
  <2>3. \A t \in Subs : subs'[t].start = subs[t].start /\ (Exists(t) <=> Exists(t)')
    BY <1>2, <2>2, SMT DEF CancelExpired, TablesTypeOK, Subscription, Exists
  <2>. QED
    BY <1>2, <2>1, <2>3, RowsKept DEF RowsExist
<1>3. CASE EmitCancelled(w) \/ AbortSweep(w)
  <2>1. \A v \in Sweepers : \A s \in sweeps'[v].todo : s \in Subs /\ Exists(s)
    BY <1>3, SMT DEF EmitCancelled, AbortSweep, SweepTypeOK, IdleSweep
  <2>. QED
    BY <1>3, <2>1, RowsKept DEF EmitCancelled, AbortSweep, tables, RowsExist, Exists
<1>. QED
  BY <1>1, <1>2, <1>3 DEF Sweeping, SweepStep

LEMMA ServingRows ==
  ASSUME TypeOK, RowsExist, Serving
  PROVE  RowsExist'
<1>. TablesTypeOK /\ SweepTypeOK /\ ApiTypeOK /\ UNCHANGED <<cycles, sweeps>>
  BY DEF TypeOK, Serving, cycleVars
<1>. /\ \A c \in Cycles : cycles[c].pc \in OpenPcs => Sub(c) \in Subs
     /\ \A v \in Sweepers : \A s \in sweeps[v].todo : s \in Subs /\ Exists(s)
  BY OpenCycle, SMT DEF TypeOK, SweepTypeOK, RowsExist
<1>1. ASSUME NEW s \in Subs, NEW trial \in Trials, CreateSubscription(s, trial)
      PROVE  RowsExist'
  <2>. DEFINE row == [NoSubscription EXCEPT
                        !.status = IF trial > 0 THEN "TRIALING" ELSE "ACTIVE",
                        !.start = now + trial, !.end = NextPeriod(now + trial)]
  <2>1. row.status = (IF trial > 0 THEN "TRIALING" ELSE "ACTIVE") /\ row.start = now + trial
    BY Zenon DEF NoSubscription
  <2>2. row.status # "NONE" /\ row.start # NoTime
    BY <2>1, TablesAssumption, SMT DEF TablesTypeOK, NoTime
  <2>3. subs' = [subs EXCEPT ![s] = row]
    BY <1>1 DEF CreateSubscription
  <2>. HIDE DEF row
  <2>4. \A t \in Subs : subs'[t] = IF t = s THEN row ELSE subs[t]
    BY <2>3 DEF TablesTypeOK
  <2>. QED
    BY <1>1, <2>2, <2>4, RowsKept DEF CreateSubscription, RowsExist, Exists
<1>2. ASSUME NEW r \in Requests, NEW op \in Ops, NEW s \in Subs, ReadForUpdate(r, op, s)
      PROVE  RowsExist'
  <2>1. \A q \in Requests : \/ requests'[q] = requests[q]
                            \/ /\ requests'[q].sub \in Subs
                               /\ Exists(requests'[q].sub)
                               /\ requests'[q].status # "NONE"
    BY <1>2, SMT DEF ReadForUpdate, ApiTypeOK, Exists
  <2>. QED
    BY <1>2, <2>1, RowsKept DEF ReadForUpdate, tables, RowsExist, Exists
<1>3. ASSUME NEW r \in Requests, NEW row, requests[r].sub \in Subs, Reply(r, row),
             row.status # "NONE", row.start # NoTime
      PROVE  RowsExist'
  <2>1. \A s \in Subs : subs'[s] = IF s = requests[r].sub THEN row ELSE subs[s]
    BY <1>3 DEF Reply, TablesTypeOK
  <2>2. \A q \in Requests : requests'[q] = NoRequest \/ requests'[q] = requests[q]
    BY <1>3 DEF Reply, ApiTypeOK
  <2>. QED
    BY <1>3, <2>1, <2>2, RowsKept DEF RowsExist, Exists
<1>4. ASSUME NEW r \in Requests, CancelNow(r) \/ CancelAtEnd(r) \/ Pause(r) \/ Resume(r)
      PROVE  RowsExist'
  <2>1. requests[r].sub \in Subs /\ requests[r] # NoRequest
    BY <1>4, PendingRequest DEF CancelNow, CancelAtEnd, Pause, Resume, Pending
  <2>. DEFINE old == subs[requests[r].sub]
  <2>2. old \in Subscription
    BY <2>1 DEF TablesTypeOK
  <2>3. old.status # "NONE" /\ old.start # NoTime /\ requests[r].status # "NONE"
    BY <2>1 DEF RowsExist, Exists
  <2>4. now # NoTime
    BY TablesAssumption, SMT DEF TablesTypeOK, NoTime
  <2>5. CASE CancelNow(r)
    <3>. DEFINE row == [old EXCEPT !.cancelAtEnd = FALSE, !.status = "CANCELLED"]
    <3>1. row.status = "CANCELLED" /\ row.start = old.start
      BY <2>2, Zenon DEF Subscription
    <3>2. Reply(r, row)
      BY <2>5 DEF CancelNow
    <3>. QED
      BY <1>3, <2>1, <2>3, <3>1, <3>2
  <2>6. CASE CancelAtEnd(r)
    <3>. DEFINE row == [old EXCEPT !.cancelAtEnd = TRUE, !.status = requests[r].status]
    <3>1. row.status = requests[r].status /\ row.start = old.start
      BY <2>2, Zenon DEF Subscription
    <3>2. Reply(r, row)
      BY <2>6 DEF CancelAtEnd
    <3>. QED
      BY <1>3, <2>1, <2>3, <3>1, <3>2
  <2>7. CASE Pause(r)
    <3>. DEFINE row == [old EXCEPT !.paused = TRUE]
    <3>1. row.status = old.status /\ row.start = old.start
      BY <2>2, Zenon DEF Subscription
    <3>2. Reply(r, row)
      BY <2>7 DEF Pause
    <3>. QED
      BY <1>3, <2>1, <2>3, <3>1, <3>2
  <2>8. CASE Resume(r)
    <3>. DEFINE row == [old EXCEPT !.paused = FALSE, !.start = now, !.end = NextPeriod(now)]
    <3>1. row.status = old.status /\ row.start = now
      BY <2>2, Zenon DEF Subscription
    <3>2. Reply(r, row)
      BY <2>8 DEF Resume
    <3>. QED
      BY <1>3, <2>1, <2>3, <2>4, <3>1, <3>2
  <2>. QED
    BY <1>4, <2>5, <2>6, <2>7, <2>8
<1>. QED
  BY <1>1, <1>2, <1>4 DEF Serving, ApiStep

LEMMA NextRows == TypeOK /\ RowsExist /\ [Next]_vars => RowsExist'
<1> SUFFICES ASSUME TypeOK, RowsExist, [Next]_vars PROVE RowsExist'
  OBVIOUS
<1>1. CASE Passing \/ UNCHANGED vars
  BY <1>1 DEF Passing, tables, cycleVars, vars, RowsExist, Exists, Sub
<1>2. CASE Settling
  BY <1>2, SettlingType DEF RowsExist, Exists, Sub
<1>. QED
  BY <1>1, <1>2, BillingRows, SweepingRows, ServingRows DEF Next

-----------------------------------------------------------------------------
(* Money first.                                                            *)

MoneyInv == RailsKept /\ MoneyFirst

LEMMA InitMoney == Init => MoneyInv
BY SMT DEF Init, TablesInit, CycleInit, MoneyInv, RailsKept, MoneyFirst, IdleCycle, LivePcs, At

\* What has been paid for stays paid for, and the rest of the state a call leaves
\* behind keeps its promise, if the call does its part.
LEMMA MoneyKept ==
  ASSUME TypeOK, MoneyInv, TypeOK',
         \A s \in Subs, e \in Dates : PaidFor(s, e) => PaidFor(s, e)',
         \A s \in Subs, e \in Dates : charges'[s][e] >= charges[s][e],
         \A s \in Subs, e \in Dates :
           payments'[s][e] = "SUCCESS" => payments[s][e] = "SUCCESS" \/ PaidFor(s, e)',
         NEW c \in Cycles,
         \A d \in Cycles \ {c} : cycles'[d] = cycles[d],
         (At(c, "recordPaid") => charges[Sub(c)][End(c)] > 0)',
         (At(c, "advance") \/ At(c, "advanceOnly") => PaidFor(Sub(c), End(c)))'
  PROVE  MoneyFirst'
<1>1. ASSUME NEW d \in Cycles \ {c}
      PROVE  /\ (At(d, "recordPaid") => charges[Sub(d)][End(d)] > 0)'
             /\ (At(d, "advance") \/ At(d, "advanceOnly") => PaidFor(Sub(d), End(d)))'
  <2>1. cycles'[d] = cycles[d]
    OBVIOUS
  <2>2. cycles[d].pc \in OpenPcs => Sub(d) \in Subs /\ End(d) \in Dates
    BY OpenCycle DEF TypeOK
  <2>3. CASE At(d, "recordPaid")
    <3>1. Sub(d) \in Subs /\ End(d) \in Dates /\ charges[Sub(d)][End(d)] > 0
      BY <2>2, <2>3 DEF At, OpenPcs, LivePcs, MoneyInv, MoneyFirst
    <3>2. charges[Sub(d)][End(d)] \in Nat /\ charges'[Sub(d)][End(d)] \in Nat
      BY <3>1 DEF TypeOK, CycleTypeOK
    <3>3. charges'[Sub(d)][End(d)] > 0
      BY <3>1, <3>2, SMT
    <3>. QED
      BY <2>1, <2>3, <3>3 DEF At, Sub, End
  <2>4. CASE At(d, "advance") \/ At(d, "advanceOnly")
    <3>1. Sub(d) \in Subs /\ End(d) \in Dates /\ PaidFor(Sub(d), End(d))
      BY <2>2, <2>4 DEF At, OpenPcs, MoneyInv, MoneyFirst
    <3>. QED
      BY <2>1, <2>4, <3>1 DEF At, Sub, End, PaidFor
  <2>. QED
    BY <2>1, <2>3, <2>4 DEF At
<1>2. \A s \in Subs, e \in Dates : payments'[s][e] = "SUCCESS" => PaidFor(s, e)'
  BY DEF MoneyInv, MoneyFirst
<1>. QED
  BY <1>1, <1>2 DEF MoneyFirst, PaidFor

\* The four things a step can do to the money and to the books.
Untouched ==
  \A s \in Subs, e \in Dates : /\ charges'[s][e] = charges[s][e]
                               /\ payments'[s][e] = "SUCCESS" <=> payments[s][e] = "SUCCESS"
OnlyRow(c) ==
  /\ charges' = charges
  /\ \A s \in Subs, e \in Dates :
       s # Sub(c) \/ e # End(c) => payments'[s][e] = payments[s][e]
Books(c) == /\ At(c, "mock") \/ At(c, "recordPaid")
            /\ OnlyRow(c) /\ payments'[Sub(c)][End(c)] = "SUCCESS"
Unbooks(c) == /\ Rail(Sub(c)) = "soroban"
              /\ OnlyRow(c) /\ payments'[Sub(c)][End(c)] # "SUCCESS"
Collects(c) ==
  /\ Rail(Sub(c)) = "soroban"
  /\ payments' = payments
  /\ charges'[Sub(c)][End(c)] > 0
  /\ \A s \in Subs, e \in Dates :
       /\ charges'[s][e] >= charges[s][e]
       /\ s # Sub(c) \/ e # End(c) => charges'[s][e] = charges[s][e]

LEMMA BillingMoves ==
  ASSUME TypeOK, MoneyInv, NEW c \in Cycles, Billing(c)
  PROVE  Untouched \/ (cycles[c].pc \in OpenPcs /\ (Books(c) \/ Unbooks(c) \/ Collects(c)))
<1>. TablesTypeOK /\ CycleTypeOK
  BY DEF TypeOK
<1>o. cycles[c].pc \in LivePcs => Rail(Sub(c)) = "soroban"
  BY DEF MoneyInv, RailsKept
<1>1. CASE UNCHANGED <<payments, charges>>
  BY <1>1 DEF Untouched
<1>2. CASE CreatePayment(c)
  <2>1. CASE Row(c) = "NONE"
    <3>1. SetRow(c, "PENDING") /\ charges' = charges /\ cycles[c].pc \in OpenPcs
      BY <1>2, <2>1 DEF CreatePayment, At, OpenPcs
    <3>. QED
      BY <2>1, <3>1, RowSet DEF Untouched, Row
  <2>2. CASE Row(c) # "NONE"
    BY <1>1, <1>2, <2>2 DEF CreatePayment
  <2>. QED
    BY <2>1, <2>2
<1>3. CASE MarkMock(c) \/ RecordPaid(c)
  <2>1. /\ cycles[c].pc \in OpenPcs
        /\ At(c, "mock") \/ At(c, "recordPaid")
        /\ SetRow(c, "SUCCESS") /\ charges' = charges
    BY <1>3 DEF MarkMock, RecordPaid, At, OpenPcs, LivePcs
  <2>. QED
    BY <2>1, RowSet DEF Books, OnlyRow
<1>4. ASSUME NEW status, status # "SUCCESS", SetRow(c, status), charges' = charges,
             cycles[c].pc \in LivePcs
      PROVE  cycles[c].pc \in OpenPcs /\ Unbooks(c)
  BY <1>4, <1>o, RowSet DEF Unbooks, OnlyRow, OpenPcs
<1>5. CASE MarkProcessing(c) \/ RecordFailure(c)
  BY <1>4, <1>5 DEF MarkProcessing, RecordFailure, At, LivePcs
<1>6. CASE InvokePaid(c)
  <2>1. cycles[c].pc \in OpenPcs /\ cycles[c].pc \in LivePcs /\ Charged(c) /\ payments' = payments
    BY <1>6 DEF InvokePaid, At, OpenPcs, LivePcs, tables
  <2>. QED
    BY <1>o, <2>1, ChargeSet DEF Collects
<1>7. CASE MarkRetrying(c)
  BY <1>7, RetryingSet DEF MarkRetrying, Untouched
<1>. QED
  BY <1>1, <1>2, <1>3, <1>5, <1>6, <1>7
     DEF Billing, CycleStep, CycleFault, Start, FindPayment, Dispatch, InvokeFailed, InvokeError,
         InvokeLate, InvokeUnread, Advance, Emit, EnterGrace, StoreRetry, Reject, Crash, Finish,
         tables

\* None of the four takes back what has been paid for.
LEMMA PaidStaysPaid ==
  ASSUME TypeOK, MoneyInv, NEW c \in Cycles,
         Untouched \/ Books(c) \/ Unbooks(c) \/ Collects(c)
  PROVE  /\ \A s \in Subs, e \in Dates : PaidFor(s, e) => PaidFor(s, e)'
         /\ \A s \in Subs, e \in Dates : charges'[s][e] >= charges[s][e]
         /\ \A s \in Subs, e \in Dates :
              payments'[s][e] = "SUCCESS" => payments[s][e] = "SUCCESS" \/ PaidFor(s, e)'
<1>. \A s \in Subs, e \in Dates : charges[s][e] \in Nat
  BY DEF TypeOK, CycleTypeOK
<1>. \A s \in Subs : Rail(s)' = Rail(s)
  BY DEF Rail
<1>1. CASE Untouched
  BY <1>1, SMT DEF Untouched, PaidFor
<1>2. CASE Books(c)
  <2>1. Rail(Sub(c)) = "soroban" => charges[Sub(c)][End(c)] > 0
    BY <1>2, SMT DEF Books, MoneyInv, MoneyFirst, RailsKept, At
  <2>. QED
    BY <1>2, <2>1, SMT DEF Books, OnlyRow, PaidFor
<1>3. CASE Unbooks(c)
  BY <1>3, SMT DEF Unbooks, OnlyRow, PaidFor
<1>4. CASE Collects(c)
  BY <1>4, SMT DEF Collects, PaidFor
<1>. QED
  BY <1>1, <1>2, <1>3, <1>4

\* If parseBillingOutcome reads every answer of the contract, a call has the money
\* before it records the payment, and the record before it moves the period.
LEMMA BillingMoney ==
  ASSUME "unread" \notin FaultKinds, TypeOK, TypeOK', MoneyInv, NEW c \in Cycles, Billing(c)
  PROVE  MoneyFirst'
<1>. TablesTypeOK /\ CycleTypeOK
  BY DEF TypeOK
<1>m. /\ \A s \in Subs, e \in Dates : PaidFor(s, e) => PaidFor(s, e)'
      /\ \A s \in Subs, e \in Dates : charges'[s][e] >= charges[s][e]
      /\ \A s \in Subs, e \in Dates :
           payments'[s][e] = "SUCCESS" => payments[s][e] = "SUCCESS" \/ PaidFor(s, e)'
  BY BillingMoves, PaidStaysPaid
<1>p. PICK s, e : s = Sub(c) /\ e = End(c)
  OBVIOUS
<1>o. cycles[c].pc \in OpenPcs => s \in Subs /\ e \in Dates
  BY <1>p, OpenCycle
<1>g. ASSUME NEW pc, Goto(c, pc), pc = "recordPaid" => charges'[s][e] > 0,
             pc \in {"advance", "advanceOnly"} => PaidFor(s, e)'
      PROVE  MoneyFirst'
  <2>1. /\ cycles'[c].pc = pc /\ Sub(c)' = s /\ End(c)' = e
        /\ \A d \in Cycles \ {c} : cycles'[d] = cycles[d]
    BY <1>p, <1>g, Gone DEF Sub, End
  <2>2. (At(c, "recordPaid") => charges[Sub(c)][End(c)] > 0)'
    BY <1>g, <2>1 DEF At
  <2>3. (At(c, "advance") \/ At(c, "advanceOnly") => PaidFor(Sub(c), End(c)))'
    BY <1>g, <2>1 DEF At, PaidFor
  <2>. QED
    BY <1>m, <2>1, <2>2, <2>3, MoneyKept
<1>b. cycles[c].pc \in OpenPcs /\ Row(c) = "SUCCESS" => PaidFor(s, e)'
  BY <1>m, <1>o, <1>p DEF Row, MoneyInv, MoneyFirst
<1>2. CASE FindPayment(c)
  <2>1. cycles[c].pc \in OpenPcs
    BY <1>2 DEF FindPayment, At, OpenPcs
  <2>2. CASE Row(c) = "SUCCESS"
    BY <1>2, <1>b, <1>g, <2>1, <2>2 DEF FindPayment
  <2>3. CASE Row(c) = "NONE"
    BY <1>2, <1>g, <2>3 DEF FindPayment
  <2>4. CASE Row(c) \notin {"SUCCESS", "NONE"}
    BY <1>2, <1>g, <2>4 DEF FindPayment
  <2>. QED
    BY <2>2, <2>3, <2>4
<1>3. CASE Dispatch(c)
  <2>1. cycles[c].pc \in OpenPcs
    BY <1>3 DEF Dispatch, At, OpenPcs
  <2>2. PICK pc : Goto(c, pc) /\ pc \in {"failed", "advance", "mock", "processing"}
                  /\ (pc = "advance" => Row(c) = "SUCCESS")
    BY <1>3, SMT DEF Dispatch, Rail
  <2>. QED
    BY <1>b, <1>g, <2>1, <2>2
<1>4. CASE MarkMock(c) \/ RecordPaid(c)
  <2>1. cycles[c].pc \in OpenPcs /\ SetRow(c, "SUCCESS") /\ Goto(c, "advance")
    BY <1>4 DEF MarkMock, RecordPaid, At, OpenPcs, LivePcs
  <2>2. payments'[s][e] = "SUCCESS"
    BY <1>p, <2>1, RowSet
  <2>3. CASE MarkMock(c)
    <3>1. Rail(s) = "test"
      BY <1>p, <2>3 DEF MarkMock, MoneyInv, RailsKept
    <3>2. PaidFor(s, e)'
      BY <2>2, <3>1 DEF PaidFor, Rail
    <3>. QED
      BY <1>g, <2>1, <3>2
  <2>4. CASE RecordPaid(c)
    <3>1. charges[s][e] > 0 /\ charges' = charges
      BY <1>p, <2>4 DEF RecordPaid, MoneyInv, MoneyFirst
    <3>2. PaidFor(s, e)'
      BY <2>2, <3>1 DEF PaidFor
    <3>. QED
      BY <1>g, <2>1, <3>2
  <2>. QED
    BY <1>4, <2>3, <2>4
<1>5. CASE InvokePaid(c)
  <2>1. charges'[s][e] > 0 /\ Goto(c, "recordPaid")
    BY <1>5, <1>p, ChargeSet DEF InvokePaid, At, OpenPcs, LivePcs
  <2>. QED
    BY <1>g, <2>1
<1>6. CASE \/ CreatePayment(c) \/ MarkProcessing(c) \/ InvokeFailed(c) \/ InvokeError(c)
           \/ InvokeLate(c)
  BY <1>6, <1>g DEF CreatePayment, MarkProcessing, InvokeFailed, InvokeError, InvokeLate
<1>7. CASE \/ RecordFailure(c) \/ Emit(c) \/ EnterGrace(c) \/ MarkRetrying(c)
           \/ StoreRetry(c)
  BY <1>7, <1>g DEF RecordFailure, Emit, EnterGrace, MarkRetrying, StoreRetry
<1>8. CASE Advance(c)
  <2>1. PICK pc : Goto(c, pc) /\ pc \in {"emitSuccess", "returned"}
    BY <1>8 DEF Advance
  <2>. QED
    BY <1>g, <2>1
<1>9. CASE Reject(c)
  <2>1. PICK pc : Goto(c, pc) /\ pc \in {"recordError", "failed", "threw"}
    BY <1>9, Zenon DEF Reject, Catch
  <2>. QED
    BY <1>g, <2>1
<1>10. CASE Crash(c) \/ Finish(c) \/ \E t \in Subs : Start(c, t)
  <2>1. /\ cycles'[c].pc \in {"idle", "returned", "find"}
        /\ \A d \in Cycles \ {c} : cycles'[d] = cycles[d]
    BY <1>10, SMT DEF Crash, Finish, Start, IdleCycle, CycleTypeOK
  <2>2. ~At(c, "recordPaid")' /\ ~At(c, "advance")' /\ ~At(c, "advanceOnly")'
    BY <2>1 DEF At
  <2>. QED
    BY <1>m, <2>1, <2>2, MoneyKept
<1>. QED
  BY <1>2, <1>3, <1>4, <1>5, <1>6, <1>7, <1>8, <1>9, <1>10
     DEF Billing, CycleStep, CycleFault, InvokeUnread

\* On the chain money only arrives.
LEMMA SettlingMoney ==
  ASSUME TypeOK, MoneyInv, Settling
  PROVE  MoneyFirst'
<1>1. PICK s \in Subs, e \in Dates : Land(s, e) \/ Lapse(s, e)
  BY DEF Settling, ChainStep
<1>2. UNCHANGED <<payments, cycles>>
  BY SettlingType
<1>3. \A t \in Subs, d \in Dates : charges[t][d] > 0 => charges'[t][d] > 0
  BY <1>1, SMT DEF Land, Lapse, TypeOK, CycleTypeOK
<1>4. \A t \in Subs, d \in Dates : PaidFor(t, d) => PaidFor(t, d)'
  BY <1>2, <1>3 DEF PaidFor, Rail
<1>5. \A c \in Cycles : cycles[c].pc \in OpenPcs => Sub(c) \in Subs /\ End(c) \in Dates
  BY OpenCycle DEF TypeOK
<1>6. ASSUME NEW c \in Cycles, At(c, "recordPaid") PROVE charges'[Sub(c)][End(c)] > 0
  BY <1>3, <1>5, <1>6 DEF MoneyInv, MoneyFirst, At, OpenPcs, LivePcs
<1>7. ASSUME NEW c \in Cycles, At(c, "advance") \/ At(c, "advanceOnly")
      PROVE  PaidFor(Sub(c), End(c))'
  <2>1. Sub(c) \in Subs /\ End(c) \in Dates /\ PaidFor(Sub(c), End(c))
    BY <1>5, <1>7 DEF MoneyInv, MoneyFirst, At, OpenPcs
  <2>2. Sub(c)' = Sub(c) /\ End(c)' = End(c)
    BY <1>2 DEF Sub, End
  <2>. QED
    BY <1>4, <2>1, <2>2 DEF PaidFor
<1>. QED
  BY <1>2, <1>4, <1>6, <1>7 DEF MoneyInv, MoneyFirst, At, Sub, End, PaidFor

LEMMA NextMoney ==
  "unread" \notin FaultKinds /\ TypeOK /\ TraceInv /\ SentIsWritten /\ MoneyInv /\ [Next]_vars
    => MoneyInv'
<1> SUFFICES ASSUME "unread" \notin FaultKinds, TypeOK, TraceInv, SentIsWritten, MoneyInv,
                    [Next]_vars
             PROVE  MoneyInv'
  OBVIOUS
<1>1. RailsKept'
  BY NextTrace DEF TraceInv
<1>4. CASE Settling
  BY <1>1, <1>4, SettlingMoney DEF MoneyInv
<1>2. CASE \E c \in Cycles : Billing(c)
  BY <1>1, <1>2, NextTypeOK, BillingMoney DEF MoneyInv
<1>3. CASE (\A c \in Cycles : ~Billing(c)) /\ ~Settling
  BY <1>1, <1>3, MoneyAtRest DEF MoneyInv, MoneyFirst, At, PaidFor, Rail, Sub, End
<1>. QED
  BY <1>2, <1>3, <1>4

-----------------------------------------------------------------------------
(* The engine implements PaidPeriods.                                      *)

Starts == [s \in Subs |-> subs[s].start]

LEMMA PairSets ==
  ASSUME NEW A \in SUBSET (Subs \X Dates), NEW B \in SUBSET (Subs \X Dates),
         \A s \in Subs, e \in Dates : <<s, e>> \in A <=> <<s, e>> \in B
  PROVE  A = B
<1>1. \A p \in Subs \X Dates : p \in A <=> p \in B
  OBVIOUS
<1>. QED
  BY <1>1

LEMMA InViews ==
  ASSUME NEW s \in Subs, NEW e \in Dates
  PROVE  /\ <<s, e>> \in Collected <=> PaidFor(s, e)
         /\ <<s, e>> \in Collected' <=> PaidFor(s, e)'
         /\ <<s, e>> \in Booked <=> payments[s][e] = "SUCCESS"
         /\ <<s, e>> \in Booked' <=> payments'[s][e] = "SUCCESS"
BY DEF Collected, Booked, PaidFor

LEMMA ViewsArePairs ==
  /\ Collected \in SUBSET (Subs \X Dates) /\ Collected' \in SUBSET (Subs \X Dates)
  /\ Booked \in SUBSET (Subs \X Dates) /\ Booked' \in SUBSET (Subs \X Dates)
BY DEF Collected, Booked

LEMMA InitViews == Init => Paid!Init
<1> SUFFICES ASSUME Init PROVE Paid!Init
  OBVIOUS
<1>1. \A s \in Subs : subs[s].start = NoTime
  BY DEF Init, TablesInit, NoSubscription
<1>2. \A s \in Subs, e \in Dates : payments[s][e] # "SUCCESS" /\ ~PaidFor(s, e)
  BY SMT DEF Init, TablesInit, CycleInit, PaidFor
<1>3. Booked = {} /\ Collected = {}
  BY <1>2, InViews, ViewsArePairs, PairSets
<1>. QED
  BY <1>1, <1>3 DEF Init, TablesInit, Paid!Init

\* What a call does to the money and to the books, as seen by PaidPeriods.
LEMMA MoneyViews ==
  ASSUME TypeOK, MoneyInv, MoneyFirst', NEW c \in Cycles, Sub(c) \in Subs, End(c) \in Dates,
         Books(c) \/ Unbooks(c) \/ Collects(c)
  PROVE  \/ /\ \E e \in Dates :
                 /\ Booked' = Booked \cup {<<Sub(c), e>>}
                 /\ Collected' \in {Collected, Collected \cup {<<Sub(c), e>>}}
                 /\ <<Sub(c), e>> \in Collected'
         \/ \E e \in Dates : Booked' = Booked \ {<<Sub(c), e>>} /\ Collected' = Collected
         \/ \E e \in Dates : Collected' = Collected \cup {<<Sub(c), e>>} /\ Booked' = Booked
<1>p. PICK s \in Subs, e \in Dates : s = Sub(c) /\ e = End(c)
  OBVIOUS
<1>n. \A t \in Subs, d \in Dates : charges[t][d] \in Nat
  BY DEF TypeOK, CycleTypeOK
<1>r. \A t \in Subs : Rail(t)' = Rail(t)
  BY DEF Rail
<1>2. CASE Books(c)
  <2>1. /\ payments'[s][e] = "SUCCESS" /\ charges' = charges
        /\ \A t \in Subs, d \in Dates : t # s \/ d # e => payments'[t][d] = payments[t][d]
    BY <1>2, <1>p DEF Books, OnlyRow
  <2>2. PaidFor(s, e)'
    BY <2>1 DEF MoneyFirst
  <2>3. \A t \in Subs, d \in Dates : t # s \/ d # e => (PaidFor(t, d)' <=> PaidFor(t, d))
    BY <2>1, <1>r DEF PaidFor
  <2>4. Booked' = Booked \cup {<<s, e>>}
    BY <2>1, InViews, ViewsArePairs, PairSets
  <2>5. Collected' = Collected \cup {<<s, e>>}
    BY <2>2, <2>3, InViews, ViewsArePairs, PairSets
  <2>. QED
    BY <1>p, <2>4, <2>5
<1>3. CASE Unbooks(c)
  <2>1. /\ payments'[s][e] # "SUCCESS" /\ charges' = charges /\ Rail(s) = "soroban"
        /\ \A t \in Subs, d \in Dates : t # s \/ d # e => payments'[t][d] = payments[t][d]
    BY <1>3, <1>p DEF Unbooks, OnlyRow
  <2>2. \A t \in Subs, d \in Dates : PaidFor(t, d)' <=> PaidFor(t, d)
    BY <2>1, <1>r DEF PaidFor
  <2>3. Collected' = Collected
    BY <2>2, InViews, ViewsArePairs, PairSets
  <2>4. Booked' = Booked \ {<<s, e>>}
    BY <2>1, InViews, ViewsArePairs, PairSets
  <2>. QED
    BY <1>p, <2>3, <2>4
<1>4. CASE Collects(c)
  <2>1. /\ charges'[s][e] > 0 /\ payments' = payments /\ Rail(s) = "soroban"
        /\ \A t \in Subs, d \in Dates : t # s \/ d # e => charges'[t][d] = charges[t][d]
    BY <1>4, <1>p DEF Collects
  <2>2. /\ PaidFor(s, e)'
        /\ \A t \in Subs, d \in Dates : t # s \/ d # e => (PaidFor(t, d)' <=> PaidFor(t, d))
    BY <2>1, <1>r DEF PaidFor
  <2>3. Collected' = Collected \cup {<<s, e>>}
    BY <2>2, InViews, ViewsArePairs, PairSets
  <2>4. Booked' = Booked
    BY <2>1, InViews, ViewsArePairs, PairSets
  <2>. QED
    BY <1>p, <2>3, <2>4
<1>. QED
  BY <1>2, <1>3, <1>4

LEMMA MoneyStep ==
  ASSUME TypeOK, MoneyInv, MoneyFirst', NEW c \in Cycles, Sub(c) \in Subs, End(c) \in Dates,
         Books(c) \/ Unbooks(c) \/ Collects(c),
         Starts' = Starts, now' = now
  PROVE  [Paid!Next]_(Paid!paidVars)
<1>p. PICK s \in Subs : s = Sub(c)
  OBVIOUS
<1>2. CASE \E e \in Dates : /\ Booked' = Booked \cup {<<s, e>>}
                            /\ Collected' \in {Collected, Collected \cup {<<s, e>>}}
                            /\ <<s, e>> \in Collected'
  BY <1>2 DEF Starts, Paid!Next, Paid!Book
<1>3. CASE \E e \in Dates : Booked' = Booked \ {<<s, e>>} /\ Collected' = Collected
  BY <1>3 DEF Starts, Paid!Next, Paid!Unbook
<1>4. CASE \E e \in Dates : Collected' = Collected \cup {<<s, e>>} /\ Booked' = Booked
  BY <1>4 DEF Starts, Paid!Next, Paid!Collect
<1>. QED
  BY <1>p, <1>2, <1>3, <1>4, MoneyViews

\* A step that leaves payments and charges alone leaves both views alone.
LEMMA SameViews ==
  ASSUME UNCHANGED <<payments, charges>> PROVE Collected' = Collected /\ Booked' = Booked
BY DEF Collected, Booked, PaidFor, Rail

\* Only advancePeriod moves a period, and it does not touch the money.
LEMMA BillingStarts ==
  ASSUME TypeOK, NEW c \in Cycles, Billing(c), ~Advance(c)
  PROVE  Starts' = Starts /\ now' = now
<1>. TablesTypeOK /\ CycleTypeOK
  BY DEF TypeOK
<1>o. cycles[c].pc \in OpenPcs => Sub(c) \in Subs
  BY OpenCycle
<1>1. CASE UNCHANGED <<subs, now>>
  BY <1>1 DEF Starts
<1>2. CASE EnterGrace(c)
  <2>1. Sub(c) \in Subs /\ subs[Sub(c)] \in Subscription
    BY <1>2, <1>o DEF EnterGrace, At, OpenPcs, TablesTypeOK
  <2>. DEFINE row == [subs[Sub(c)] EXCEPT !.status = "PAST_DUE", !.retry = Retry(c),
                        !.grace = now + Grace]
  <2>2. row.start = subs[Sub(c)].start
    BY <2>1, Zenon DEF Subscription
  <2>3. subs' = [subs EXCEPT ![Sub(c)] = row]
    BY <1>2 DEF EnterGrace
  <2>. HIDE DEF row
  <2>. QED
    BY <1>2, <2>2, <2>3 DEF EnterGrace, Starts, TablesTypeOK
<1>3. CASE StoreRetry(c)
  BY <1>3, <1>o, SMT DEF StoreRetry, Starts, TablesTypeOK, Subscription, At, OpenPcs
<1>. QED
  BY <1>1, <1>2, <1>3
     DEF Billing, CycleStep, CycleFault, Start, FindPayment, CreatePayment, Dispatch, MarkMock,
         MarkProcessing, InvokePaid, InvokeFailed, InvokeError, InvokeLate, InvokeUnread,
         RecordPaid, RecordFailure, Emit, MarkRetrying, Reject, Crash, Finish, tables

LEMMA BillingView ==
  ASSUME TypeOK, MoneyInv, MoneyFirst', NEW c \in Cycles, Billing(c)
  PROVE  [Paid!Next]_(Paid!paidVars)
<1>1. CASE Advance(c)
  <2>1. Sub(c) \in Subs /\ End(c) \in Dates /\ subs[Sub(c)] \in Subscription
    BY <1>1, OpenCycle DEF Advance, At, OpenPcs, TypeOK, TablesTypeOK
  <2>2. PICK s \in Subs, e \in Dates : s = Sub(c) /\ e = End(c)
    BY <2>1
  <2>3. <<s, e>> \in Collected
    BY <1>1, <2>2, InViews DEF Advance, MoneyInv, MoneyFirst
  <2>. DEFINE row == [subs[s] EXCEPT !.status = "ACTIVE", !.start = e,
                        !.end = NextPeriod(e), !.retry = 0, !.grace = NoTime]
  <2>4. row.start = e
    BY <2>1, <2>2, Zenon DEF Subscription
  <2>5. subs' = [subs EXCEPT ![s] = row]
    BY <1>1, <2>2 DEF Advance
  <2>. HIDE DEF row
  <2>6. Starts' = [Starts EXCEPT ![s] = e]
    BY <2>4, <2>5 DEF Starts, TypeOK, TablesTypeOK
  <2>7. Collected' = Collected /\ Booked' = Booked /\ now' = now
    BY <1>1, SameViews DEF Advance
  <2>. QED
    BY <2>3, <2>6, <2>7 DEF Starts, Paid!Next, Paid!Advance
<1>2. CASE ~Advance(c)
  <2>1. CASE cycles[c].pc \in OpenPcs /\ (Books(c) \/ Unbooks(c) \/ Collects(c))
    BY <1>2, <2>1, BillingStarts, OpenCycle, MoneyStep DEF TypeOK
  <2>2. CASE Untouched
    <3>1. Collected' = Collected
      <4>1. \A t \in Subs : Rail(t)' = Rail(t)
        BY DEF Rail
      <4>2. \A t \in Subs, d \in Dates : PaidFor(t, d)' <=> PaidFor(t, d)
        <5> TAKE t \in Subs, d \in Dates
        <5>1. /\ charges'[t][d] = charges[t][d]
              /\ payments'[t][d] = "SUCCESS" <=> payments[t][d] = "SUCCESS"
          BY <2>2 DEF Untouched
        <5>2. CASE Rail(t) = "soroban"
          BY <4>1, <5>1, <5>2 DEF PaidFor
        <5>3. CASE Rail(t) # "soroban"
          BY <4>1, <5>1, <5>3 DEF PaidFor
        <5>. QED
          BY <5>2, <5>3
      <4>. QED
        BY <4>2, InViews, ViewsArePairs, PairSets
    <3>2. Booked' = Booked
      <4>1. \A t \in Subs, d \in Dates :
              payments'[t][d] = "SUCCESS" <=> payments[t][d] = "SUCCESS"
        BY <2>2 DEF Untouched
      <4>2. \A t \in Subs, d \in Dates : <<t, d>> \in Booked' <=> <<t, d>> \in Booked
        BY <4>1, InViews
      <4>. QED
        BY <4>2, ViewsArePairs, PairSets
    <3>. QED
      BY <1>2, <3>1, <3>2, BillingStarts DEF Starts, Paid!paidVars
  <2>. QED
    BY <2>1, <2>2, BillingMoves
<1>. QED
  BY <1>1, <1>2

\* A sweep moves neither money nor periods.
LEMMA SweepingView ==
  ASSUME TypeOK, NEW w \in Sweepers, Sweeping(w)
  PROVE  UNCHANGED Paid!paidVars
<1>1. UNCHANGED <<payments, charges, now>>
  BY DEF Sweeping, SweepStep, FindExpired, CancelExpired, EmitCancelled, AbortSweep, cycleVars,
         tables
<1>2. \A s \in Subs : subs'[s].start = subs[s].start
  BY SMTT(30) DEF TypeOK, TablesTypeOK, Subscription, Sweeping, SweepStep, FindExpired,
                  CancelExpired, EmitCancelled, AbortSweep, tables
<1>. QED
  BY <1>1, <1>2, SameViews DEF Paid!paidVars

\* Of the routes, create opens a period and resume starts a fresh one.
LEMMA ServingView ==
  ASSUME TypeOK, RowsExist, Serving
  PROVE  [Paid!Next]_(Paid!paidVars)
<1>. TablesTypeOK /\ ApiTypeOK
  BY DEF TypeOK
<1>v. Collected' = Collected /\ Booked' = Booked /\ now' = now
  BY SameViews DEF Serving, ApiStep, CreateSubscription, ReadForUpdate, CancelNow, CancelAtEnd,
                   Pause, Resume, Reply, cycleVars, tables
<1>s. ASSUME \A s \in Subs : subs'[s].start = subs[s].start PROVE UNCHANGED Paid!paidVars
  BY <1>s, <1>v DEF Paid!paidVars
<1>1. ASSUME NEW s \in Subs, NEW trial \in Trials, CreateSubscription(s, trial)
      PROVE  Paid!Next
  <2>. DEFINE row == [NoSubscription EXCEPT
                        !.status = IF trial > 0 THEN "TRIALING" ELSE "ACTIVE",
                        !.start = now + trial, !.end = NextPeriod(now + trial)]
  <2>1. row.start = now + trial
    BY Zenon DEF NoSubscription
  <2>2. now + trial \in Dates /\ now + trial >= now
    BY TablesAssumption, SMT DEF TablesTypeOK, Dates
  <2>3. subs' = [subs EXCEPT ![s] = row]
    BY <1>1 DEF CreateSubscription
  <2>. HIDE DEF row
  <2>4. Starts' = [Starts EXCEPT ![s] = now + trial]
    BY <2>1, <2>3 DEF Starts, TablesTypeOK
  <2>5. Starts[s] = NoTime
    BY <1>1 DEF CreateSubscription, RowsExist, Starts
  <2>. QED
    BY <1>v, <2>2, <2>4, <2>5 DEF Starts, Paid!Next, Paid!Open
<1>2. CASE \E r \in Requests, op \in Ops, s \in Subs : ReadForUpdate(r, op, s)
  BY <1>2, <1>s DEF ReadForUpdate, tables
<1>3. ASSUME NEW r \in Requests, CancelNow(r) \/ CancelAtEnd(r) \/ Pause(r) \/ Resume(r)
      PROVE  [Paid!Next]_(Paid!paidVars)
  <2>1. PICK s \in Subs : s = requests[r].sub
    BY <1>3, PendingRequest DEF CancelNow, CancelAtEnd, Pause, Resume
  <2>2. subs[s] \in Subscription /\ subs[s].start # NoTime
    BY <1>3, <2>1 DEF TablesTypeOK, RowsExist, CancelNow, CancelAtEnd, Pause, Resume, Pending
  <2>3. ASSUME NEW row, row.start = subs[s].start, Reply(r, row)
        PROVE  UNCHANGED Paid!paidVars
    BY <1>s, <2>1, <2>3 DEF Reply, TablesTypeOK
  <2>4. /\ [subs[s] EXCEPT !.cancelAtEnd = FALSE, !.status = "CANCELLED"].start = subs[s].start
        /\ [subs[s] EXCEPT !.cancelAtEnd = TRUE, !.status = requests[r].status].start
             = subs[s].start
        /\ [subs[s] EXCEPT !.paused = TRUE].start = subs[s].start
    BY <2>2, Zenon DEF Subscription
  <2>5. CASE CancelNow(r) \/ CancelAtEnd(r) \/ Pause(r)
    BY <2>1, <2>3, <2>4, <2>5 DEF CancelNow, CancelAtEnd, Pause
  <2>6. CASE Resume(r)
    <3>. DEFINE row == [subs[s] EXCEPT !.paused = FALSE, !.start = now, !.end = NextPeriod(now)]
    <3>1. row.start = now
      BY <2>2, Zenon DEF Subscription
    <3>2. subs' = [subs EXCEPT ![s] = row]
      BY <2>1, <2>6 DEF Resume, Reply
    <3>. HIDE DEF row
    <3>3. Starts' = [Starts EXCEPT ![s] = now]
      BY <3>1, <3>2 DEF Starts, TablesTypeOK
    <3>. QED
      BY <1>v, <2>2, <3>3 DEF Starts, Paid!Next, Paid!Restart
  <2>. QED
    BY <1>3, <2>5, <2>6
<1>. QED
  BY <1>1, <1>2, <1>3 DEF Serving, ApiStep, ReadForUpdate

LEMMA PassingView ==
  ASSUME Passing
  PROVE  Paid!Next
<1>1. UNCHANGED <<payments, charges>> /\ Starts' = Starts /\ now' = now + 1
  BY DEF Passing, Tick, cycleVars, tables, Starts
<1>. QED
  BY <1>1, SameViews DEF Starts, Paid!Next, Paid!NextDay

\* A transaction adrift that pays is money collected; one that lapses is nothing.
LEMMA SettlingView ==
  ASSUME TypeOK, Settling
  PROVE  [Paid!Next]_(Paid!paidVars)
<1>1. PICK s \in Subs, e \in Dates : Land(s, e) \/ Lapse(s, e)
  BY DEF Settling, ChainStep
<1>2. UNCHANGED <<subs, payments, now>> /\ Starts' = Starts /\ Booked' = Booked
  BY SettlingType DEF Starts, Booked
<1>3. CASE Rail(s) = "soroban" /\ Land(s, e)
  <2>1. charges'[s][e] > 0 /\ \A t \in Subs, d \in Dates :
          t # s \/ d # e => charges'[t][d] = charges[t][d]
    BY <1>3, SMT DEF Land, TypeOK, CycleTypeOK
  <2>2. PaidFor(s, e)' /\ \A t \in Subs, d \in Dates :
          t # s \/ d # e => (PaidFor(t, d)' <=> PaidFor(t, d))
    BY <1>2, <1>3, <2>1 DEF PaidFor, Rail
  <2>3. Collected' = Collected \cup {<<s, e>>}
    BY <2>2, InViews, ViewsArePairs, PairSets
  <2>. QED
    BY <1>2, <2>3 DEF Starts, Paid!Next, Paid!Collect
<1>4. CASE Rail(s) # "soroban" \/ Lapse(s, e)
  <2>1. \A t \in Subs, d \in Dates :
          charges'[t][d] = charges[t][d] \/ Rail(t) # "soroban"
    BY <1>1, <1>4, SMT DEF Land, Lapse, TypeOK, CycleTypeOK
  <2>2. \A t \in Subs, d \in Dates : PaidFor(t, d)' <=> PaidFor(t, d)
    BY <1>2, <2>1 DEF PaidFor, Rail
  <2>3. Collected' = Collected
    BY <2>2, InViews, ViewsArePairs, PairSets
  <2>. QED
    BY <1>2, <2>3 DEF Starts, Paid!paidVars
<1>. QED
  BY <1>1, <1>3, <1>4

LEMMA NextView ==
  ASSUME TypeOK, RowsExist, MoneyInv, MoneyFirst', [Next]_vars
  PROVE  [Paid!Next]_(Paid!paidVars)
<1>1. CASE UNCHANGED vars
  BY <1>1, SameViews DEF vars, Paid!paidVars
<1>. QED
  BY <1>1, BillingView, SweepingView, ServingView, SettlingView, PassingView DEF Next

\* Whatever runs next to whatever, a subscription enters a period only from a paid
\* one (or by create and resume), and only money puts a payment into the books -
\* provided parseBillingOutcome reads every answer the contract gives.
THEOREM EngineImplementsPaidPeriods ==
  "unread" \notin FaultKinds => (Spec => ImplementsPaidPeriods)
<1> SUFFICES ASSUME "unread" \notin FaultKinds PROVE Spec => ImplementsPaidPeriods
  OBVIOUS
<1>. DEFINE Inv == TypeOK /\ TraceInv /\ SentIsWritten /\ RowsExist /\ MoneyInv
<1>1. Init => Inv
  BY InitTypeOK, InitTrace, InitRows, InitMoney
<1>2. Inv /\ [Next]_vars => Inv'
  BY NextTypeOK, NextTrace, NextRows, NextMoney
<1>3. Inv /\ Inv' /\ [Next]_vars => [Paid!Next]_(Paid!paidVars)
  BY NextView DEF MoneyInv
<1>. HIDE DEF Inv
<1>. QED
  BY InitViews, <1>1, <1>2, <1>3, PTL DEF Spec, ImplementsPaidPeriods, Paid!Spec
=============================================================================
