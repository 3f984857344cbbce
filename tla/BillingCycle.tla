---------------------------- MODULE BillingCycle ----------------------------
(***************************************************************************)
(* processBillingCycle and everything it calls, one action per awaited     *)
(* database or network call.  Several cycles run at once (ten in a worker, *)
(* more in the API process and in the scheduler process) and interleave at *)
(* every await.  A cycle works on the subscription row it read first: the  *)
(* period end and the retry count it writes back are those of that read.   *)
(***************************************************************************)
EXTENDS BillingTables

CONSTANTS
  Cycles,      \* slots for calls of processBillingCycle
  None,        \* no subscription, no call
  RetryCap,    \* bound: no cycle starts on a subscription with this retry count
  ChargeCap    \* bound: nor on a period charged this many times

ASSUME CycleAssumption ==
  /\ None \notin Subs \cup Cycles
  /\ RetryCap \in Nat /\ ChargeCap \in Nat

VARIABLES
  cycles,   \* the calls of processBillingCycle in progress
  charges,  \* charges[s][e]: execute_billing transactions that took the money
  adrift    \* adrift[s][e]: those sent whose fate no call waits for any more

cycleVars == <<cycles, charges, adrift>>

LivePcs == {"processing", "invoke", "recordPaid", "recordFailed", "recordError"}
OpenPcs == LivePcs \cup
  {"find", "create", "dispatch", "mock", "advance", "advanceOnly", "emitSuccess",
   "failed", "storeRetry", "emitFailed"}
Pcs == OpenPcs \cup {"idle", "returned", "threw"}

\* A slot: where the call is, and the fields of `sub` it uses.
Cycle == [pc : Pcs, sub : Subs \cup {None}, end : Dates, retry : Nat]
IdleCycle == [pc |-> "idle", sub |-> None, end |-> 0, retry |-> 0]

Sub(c) == cycles[c].sub
End(c) == cycles[c].end
At(c, pc) == cycles[c].pc = pc
Goto(c, pc) == cycles' = [cycles EXCEPT ![c].pc = pc]
Row(c) == payments[Sub(c)][End(c)]
SetRow(c, status) == payments' = [payments EXCEPT ![Sub(c)][End(c)] = status]
Charged(c) == charges' = [charges EXCEPT ![Sub(c)][End(c)] = @ + 1]
Adrift(c) == adrift' = [adrift EXCEPT ![Sub(c)][End(c)] = @ + 1]

\* The bounds of the model on the periods it follows.
Bounded(s) ==
  /\ subs[s].end + Period <= MaxDate
  /\ subs[s].retry < RetryCap
  /\ charges[s][subs[s].end] < ChargeCap

\* Faulty Start: the closed subscriptions are not turned away.
StartUnguarded(c, s) ==
  /\ At(c, "idle") /\ Exists(s) /\ Bounded(s)
  /\ cycles' = [cycles EXCEPT ![c] =
       [pc |-> "find", sub |-> s, end |-> subs[s].end, retry |-> subs[s].retry]]
  /\ UNCHANGED <<tables, charges, adrift, now, faults>>

\* findUniqueOrThrow, and the early return for a closed subscription.  Nothing
\* asks whether the subscription is due, paused, on trial or to be cancelled.
Start(c, s) ==
  /\ At(c, "idle") /\ Exists(s) /\ Bounded(s)
  /\ cycles' = [cycles EXCEPT ![c] =
       [pc |-> IF subs[s].status \in {"CANCELLED", "EXPIRED"} THEN "returned" ELSE "find",
        sub |-> s, end |-> subs[s].end, retry |-> subs[s].retry]]
  /\ UNCHANGED <<tables, charges, adrift, now, faults>>

FindPayment(c) ==
  /\ At(c, "find")
  /\ Goto(c, CASE Row(c) = "SUCCESS" -> "advanceOnly"
               [] Row(c) = "NONE"    -> "create"
               [] OTHER              -> "dispatch")
  /\ UNCHANGED <<tables, charges, now, faults>>

\* The insert; on a key another cycle inserted meanwhile the call throws.
CreatePayment(c) ==
  /\ At(c, "create")
  /\ IF Row(c) = "NONE" THEN SetRow(c, "PENDING") /\ Goto(c, "dispatch")
                        ELSE Goto(c, "threw") /\ UNCHANGED payments
  /\ UNCHANGED <<subs, charges, now, faults>>

\* The choice of the rail, and the second look at the row that
\* executeSorobanBilling and submitPayment begin with.
Dispatch(c) ==
  /\ At(c, "dispatch")
  /\ Goto(c, CASE Rail(Sub(c)) = "none" -> "failed"
               [] Rail(Sub(c)) # "none" /\ Row(c) = "SUCCESS" -> "advance"
               [] Rail(Sub(c)) = "test" /\ Row(c) # "SUCCESS" -> "mock"
               [] Rail(Sub(c)) = "soroban" /\ Row(c) # "SUCCESS" -> "processing")
  /\ UNCHANGED <<tables, charges, now, faults>>

MarkMock(c) ==
  /\ At(c, "mock")
  /\ SetRow(c, "SUCCESS")
  /\ Goto(c, "advance")
  /\ UNCHANGED <<subs, charges, now, faults>>

\* Faulty MarkProcessing: execute_billing is called on a row that is still PENDING.
SkipProcessing(c) ==
  /\ At(c, "processing")
  /\ Goto(c, "invoke")
  /\ UNCHANGED <<tables, charges, now, faults>>

MarkProcessing(c) ==
  /\ At(c, "processing")
  /\ SetRow(c, "PROCESSING")
  /\ Goto(c, "invoke")
  /\ UNCHANGED <<subs, charges, now, faults>>

\* The outcomes of invokeAsAdmin("execute_billing"): the contract pays, reports
\* Failed, or the call throws without having had an effect (simulation or
\* submission refused, transaction failed).
InvokePaid(c) ==
  /\ At(c, "invoke")
  /\ Charged(c)
  /\ Goto(c, "recordPaid")
  /\ UNCHANGED <<tables, now, faults>>

InvokeFailed(c) ==
  /\ At(c, "invoke")
  /\ Goto(c, "recordFailed")
  /\ UNCHANGED <<tables, charges, now, faults>>

InvokeError(c) ==
  /\ At(c, "invoke")
  /\ Goto(c, "recordError")
  /\ UNCHANGED <<tables, charges, now, faults>>

\* The transaction is on its way, but the poll fails or gives up on it.
InvokeLate(c) ==
  /\ "late" \in FaultKinds /\ Fault
  /\ At(c, "invoke")
  /\ Adrift(c)
  /\ Goto(c, "recordError")
  /\ UNCHANGED <<tables, charges, now>>

\* A transaction nobody waits for pays after all, whatever the rows say by then, ...
Land(s, e) ==
  /\ adrift[s][e] > 0
  /\ adrift' = [adrift EXCEPT ![s][e] = @ - 1]
  /\ charges' = [charges EXCEPT ![s][e] = @ + 1]
  /\ UNCHANGED <<tables, now, faults, cycles>>

\* ... or fails, is refused by the contract, or its validity runs out.
Lapse(s, e) ==
  /\ adrift[s][e] > 0
  /\ adrift' = [adrift EXCEPT ![s][e] = @ - 1]
  /\ UNCHANGED <<tables, now, faults, cycles, charges>>

\* The contract reports Failed in a shape parseBillingOutcome does not know:
\* it answers null, and null is taken for Paid.
InvokeUnread(c) ==
  /\ "unread" \in FaultKinds /\ Fault
  /\ At(c, "invoke")
  /\ Goto(c, "recordPaid")
  /\ UNCHANGED <<tables, charges, now>>

RecordPaid(c) ==
  /\ At(c, "recordPaid")
  /\ SetRow(c, "SUCCESS")
  /\ Goto(c, "advance")
  /\ UNCHANGED <<subs, charges, now, faults>>

\* Faulty RecordFailure: the failure is recorded but not rethrown.
RecordFailureReturns(c) ==
  /\ At(c, "recordFailed") \/ At(c, "recordError")
  /\ SetRow(c, "FAILED")
  /\ Goto(c, "advance")
  /\ UNCHANGED <<subs, charges, now, faults>>

\* Both failures write FAILED and rethrow to processBillingCycle's catch.
RecordFailure(c) ==
  /\ At(c, "recordFailed") \/ At(c, "recordError")
  /\ SetRow(c, "FAILED")
  /\ Goto(c, "failed")
  /\ UNCHANGED <<subs, charges, now, faults>>

\* advancePeriod: an update by id, whatever the row has become since the read.
Advance(c) ==
  /\ At(c, "advance") \/ At(c, "advanceOnly")
  /\ subs' = [subs EXCEPT ![Sub(c)] =
       [@ EXCEPT !.status = "ACTIVE", !.start = End(c), !.end = NextPeriod(End(c)),
                 !.retry = 0, !.grace = NoTime]]
  /\ Goto(c, IF At(c, "advance") THEN "emitSuccess" ELSE "returned")
  /\ UNCHANGED <<payments, charges, now, faults>>

\* emitWebhookEvent leaves the billing tables alone; it can reject (below).
Emit(c) ==
  /\ At(c, "emitSuccess") \/ At(c, "emitFailed")
  /\ Goto(c, "returned")
  /\ UNCHANGED <<tables, charges, now, faults>>

Retry(c) == cycles[c].retry + 1

\* Faulty EnterGrace: gracePeriodEndsAt is not written.
EnterGraceOpenEnded(c) ==
  /\ At(c, "failed") /\ Retry(c) >= MaxRetries
  /\ subs' = [subs EXCEPT ![Sub(c)] = [@ EXCEPT !.status = "PAST_DUE", !.retry = Retry(c)]]
  /\ Goto(c, "emitFailed")
  /\ UNCHANGED <<payments, charges, now, faults>>

\* Faulty EnterGrace: the failure is not counted.
EnterGraceUncounted(c) ==
  /\ At(c, "failed") /\ Retry(c) >= MaxRetries
  /\ subs' = [subs EXCEPT ![Sub(c)] = [@ EXCEPT !.status = "PAST_DUE", !.grace = now + Grace]]
  /\ Goto(c, "emitFailed")
  /\ UNCHANGED <<payments, charges, now, faults>>

\* Faulty EnterGrace: it puts back the period of the row that was read.
EnterGraceRollsBack(c) ==
  /\ At(c, "failed") /\ Retry(c) >= MaxRetries
  /\ subs' = [subs EXCEPT ![Sub(c)] =
       [@ EXCEPT !.status = "PAST_DUE", !.retry = Retry(c), !.grace = now + Grace,
                 !.start = End(c) - Period, !.end = End(c)]]
  /\ Goto(c, "emitFailed")
  /\ UNCHANGED <<payments, charges, now, faults>>

\* handlePaymentFailure, out of retries.
EnterGrace(c) ==
  /\ At(c, "failed") /\ Retry(c) >= MaxRetries
  /\ subs' = [subs EXCEPT ![Sub(c)] =
       [@ EXCEPT !.status = "PAST_DUE", !.retry = Retry(c), !.grace = now + Grace]]
  /\ Goto(c, "emitFailed")
  /\ UNCHANGED <<payments, charges, now, faults>>

\* handlePaymentFailure, retries left: updateMany over the payments, then the count.
MarkRetrying(c) ==
  /\ At(c, "failed") /\ Retry(c) < MaxRetries
  /\ payments' = [payments EXCEPT ![Sub(c)] =
       [e \in Dates |-> IF @[e] = "FAILED" THEN "RETRYING" ELSE @[e]]]
  /\ Goto(c, "storeRetry")
  /\ UNCHANGED <<subs, charges, now, faults>>

StoreRetry(c) ==
  /\ At(c, "storeRetry")
  /\ subs' = [subs EXCEPT ![Sub(c)].retry = Retry(c)]
  /\ Goto(c, "returned")
  /\ UNCHANGED <<payments, charges, now, faults>>

\* Faulty Catch: a rejected update of the simulated payment is swallowed.
CatchSwallows(pc) ==
  CASE pc \in {"invoke", "recordPaid", "recordFailed"} -> "recordError"
    [] pc \in {"dispatch", "processing", "recordError", "advance", "emitSuccess"} -> "failed"
    [] pc = "mock" -> "advance"
    [] OTHER -> "threw"

\* Where a rejected call lands: executeSorobanBilling's catch, the catch of
\* processBillingCycle, or out of the function.
Catch(pc) ==
  CASE pc \in {"invoke", "recordPaid", "recordFailed"} -> "recordError"
    [] pc \in {"dispatch", "mock", "processing", "recordError", "advance", "emitSuccess"}
         -> "failed"
    [] OTHER -> "threw"

\* The awaited call fails before it has an effect.
Reject(c) ==
  /\ "reject" \in FaultKinds /\ Fault
  /\ cycles[c].pc \in OpenPcs
  /\ Goto(c, Catch(cycles[c].pc))
  /\ UNCHANGED <<tables, charges, now>>

\* The process dies: what the call had not written is gone, the transaction it may
\* have sent is not.  The call may have ended, its caller not yet taken the result.
Crash(c) ==
  /\ "crash" \in FaultKinds /\ Fault
  /\ ~At(c, "idle")
  /\ cycles' = [cycles EXCEPT ![c] = IdleCycle]
  /\ (At(c, "invoke") /\ Adrift(c)) \/ UNCHANGED adrift
  /\ UNCHANGED <<tables, charges, now>>

\* The caller takes the result: the slot is free again.
Finish(c) ==
  /\ cycles[c].pc \in {"returned", "threw"}
  /\ cycles' = [cycles EXCEPT ![c] = IdleCycle]
  /\ UNCHANGED <<tables, charges, adrift, now, faults>>

CycleStep(c) ==
  /\ \/ FindPayment(c) \/ CreatePayment(c) \/ Dispatch(c)
     \/ MarkMock(c) \/ MarkProcessing(c)
     \/ InvokePaid(c) \/ InvokeFailed(c) \/ InvokeError(c)
     \/ RecordPaid(c) \/ RecordFailure(c)
     \/ Advance(c) \/ Emit(c)
     \/ EnterGrace(c) \/ MarkRetrying(c) \/ StoreRetry(c)
  /\ UNCHANGED adrift

CycleFault(c) ==
  \/ InvokeLate(c)
  \/ (InvokeUnread(c) \/ Reject(c)) /\ UNCHANGED adrift

\* The chain deals with what was sent.
ChainStep == \E s \in Subs, e \in Dates : Land(s, e) \/ Lapse(s, e)

CycleInit ==
  /\ cycles = [c \in Cycles |-> IdleCycle]
  /\ charges = [s \in Subs |-> [e \in Dates |-> 0]]
  /\ adrift = [s \in Subs |-> [e \in Dates |-> 0]]

CycleTypeOK ==
  /\ cycles \in [Cycles -> Cycle]
  /\ \A c \in Cycles : cycles[c].pc \in OpenPcs =>
       Sub(c) \in Subs /\ End(c) + Period <= MaxDate
  /\ charges \in [Subs -> [Dates -> Nat]]
  /\ adrift \in [Subs -> [Dates -> Nat]]
=============================================================================
