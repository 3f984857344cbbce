---------------------------- MODULE BillingEngine ----------------------------
(***************************************************************************)
(* Billing as the code allows it to run: a billing cycle for any           *)
(* subscription at any time (POST /billing/run and /billing/run-inline ask *)
(* for nothing else), several at once, next to grace sweeps, the           *)
(* subscription routes, a moving clock and failures.  What holds here      *)
(* holds however jobs are queued, deduplicated and retried.                *)
(***************************************************************************)
EXTENDS BillingCycle, GraceSweep, SubscriptionApi

vars == <<subs, payments, now, faults, cycles, charges, adrift, sweeps, requests>>

Init == TablesInit /\ CycleInit /\ SweepInit /\ ApiInit

Billing(c) ==
  /\ \/ \E s \in Subs : Start(c, s)
     \/ CycleStep(c)
     \/ CycleFault(c)
     \/ Crash(c)
     \/ Finish(c)
  /\ UNCHANGED <<sweeps, requests>>

Sweeping(w) ==
  /\ SweepStep(w) \/ AbortSweep(w)
  /\ UNCHANGED <<cycleVars, requests>>

Serving == ApiStep /\ UNCHANGED <<cycleVars, sweeps>>

Settling == ChainStep /\ UNCHANGED <<sweeps, requests>>

Passing == Tick /\ UNCHANGED <<tables, faults, cycleVars, sweeps, requests>>

Next ==
  \/ \E c \in Cycles : Billing(c)
  \/ \E w \in Sweepers : Sweeping(w)
  \/ Serving
  \/ Settling
  \/ Passing

Spec == Init /\ [][Next]_vars

-----------------------------------------------------------------------------

\* Every variable has the type of the code's rows and locals.
TypeOK == TablesTypeOK /\ CycleTypeOK /\ SweepTypeOK /\ ApiTypeOK

\* The subscriber of s has paid for the period ending at e.  On chain that is a
\* charge; in test mode the simulated payment is the money.
PaidFor(s, e) ==
  IF Rail(s) = "soroban" THEN charges[s][e] > 0 ELSE payments[s][e] = "SUCCESS"

Collected == {p \in Subs \X Dates : PaidFor(p[1], p[2])}
Booked == {p \in Subs \X Dates : payments[p[1]][p[2]] = "SUCCESS"}

Paid == INSTANCE PaidPeriods WITH
  None <- NoTime,
  start <- [s \in Subs |-> subs[s].start],
  collected <- Collected,
  booked <- Booked,
  today <- now

\* However cycles, sweeps and requests interleave on stale rows, a subscription
\* enters a period only after the one before was paid (advancePeriod is reached
\* from a recorded payment only), and no row says SUCCESS without the money.
ImplementsPaidPeriods == Paid!Spec

\* A charge on chain always leaves a row that says more than PENDING, through
\* every crash and race: PROCESSING is written before execute_billing is called.
\* Without the row nobody could tell afterwards that money moved.
ChargeLeavesTrace ==
  \A s \in Subs, e \in Dates :
    charges[s][e] > 0 => payments[s][e] \notin {"NONE", "PENDING"}

\* Nothing in flight that read s before it was closed, on chain or off.
Settled(s) ==
  /\ \A e \in Dates : adrift[s][e] = 0
  /\ \A c \in Cycles : cycles[c].pc \in OpenPcs => Sub(c) # s
  /\ \A r \in Requests : Pending(r, "cancelAtEnd") /\ requests[r].sub = s
                           => requests[r].status = "CANCELLED"

Closed(s) == subs[s].status = "CANCELLED" /\ Settled(s)

\* Once s is cancelled and the calls and transactions begun before have ended, no later
\* cycle, sweep, resume or second cancel revives it or charges it again.
ClosedStaysClosed ==
  [][\A s \in Subs : Closed(s) =>
       Closed(s)' /\ charges'[s] = charges[s] /\ payments'[s] = payments[s]]_vars

\* A subscription that is past due knows when its grace ends, or the sweep would
\* never find it.  Only a cancel at period end that writes back the status it read,
\* over a payment that came in between, leaves one that does not.
GraceHasEnd ==
  \A s \in Subs :
    subs[s].status = "PAST_DUE" => subs[s].grace # NoTime \/ subs[s].cancelAtEnd

-----------------------------------------------------------------------------
(* The invariants the proofs of the above rest on.                         *)

\* What is at work on a subscription works on an existing row.
RowsExist ==
  /\ \A s \in Subs : Exists(s) <=> subs[s].start # NoTime
  /\ \A c \in Cycles : cycles[c].pc \in OpenPcs => Exists(Sub(c))
  /\ \A w \in Sweepers : \A s \in sweeps[w].todo : Exists(s)
  /\ \A r \in Requests :
       requests[r] # NoRequest => Exists(requests[r].sub) /\ requests[r].status # "NONE"

\* A call stays on its rail.
RailsKept ==
  \A c \in Cycles : /\ cycles[c].pc \in LivePcs => Rail(Sub(c)) = "soroban"
                    /\ At(c, "mock") => Rail(Sub(c)) = "test"

\* From execute_billing on, the row has left PENDING.
WrittenAhead ==
  \A c \in Cycles :
    cycles[c].pc \in LivePcs \ {"processing"} => Row(c) \notin {"NONE", "PENDING"}

\* So has the row of a transaction that nobody waits for.
SentIsWritten ==
  \A s \in Subs, e \in Dates :
    adrift[s][e] > 0 => payments[s][e] \notin {"NONE", "PENDING"}

\* A call that is about to record a payment or to move the period has the money;
\* so has every row that says SUCCESS.
MoneyFirst ==
  /\ \A c \in Cycles : /\ At(c, "recordPaid") => charges[Sub(c)][End(c)] > 0
                       /\ At(c, "advance") \/ At(c, "advanceOnly") => PaidFor(Sub(c), End(c))
  /\ \A s \in Subs, e \in Dates : payments[s][e] = "SUCCESS" => PaidFor(s, e)
=============================================================================
