---------------------------- MODULE BillingTables ----------------------------
(***************************************************************************)
(* The Postgres rows that billing reads and writes: the subscriptions, the *)
(* payments, and the wall clock the handlers read with `new Date()`.       *)
(*                                                                         *)
(* A payment is found by its unique idempotency key, which is made of the  *)
(* subscription and of the end of the billed period, so the payments are   *)
(* a function of the two.  A stored transaction hash is only ever read     *)
(* together with status = SUCCESS, and SUCCESS is never written without a  *)
(* hash: the status alone stands for both.                                 *)
(***************************************************************************)
EXTENDS Integers, FiniteSets

CONSTANTS
  Subs,         \* subscription ids
  OnChain,      \* those whose plan has a contractPlanId, on a Soroban deployment
  TestMode,     \* TEST_MODE: payments are simulated
  Period,       \* length of the billing interval
  Trials,       \* lengths of the trials that plans offer (0: no trial)
  Grace,        \* GRACE_PERIOD_HOURS
  MaxRetries,   \* MAX_PAYMENT_RETRIES
  MaxNow,       \* bound: the clock stops here
  MaxDate,      \* bound: the last date a period may end at
  FaultKinds,   \* which failures of the environment may happen
  MaxFaults     \* bound: how many of them happen in one behaviour

ASSUME TablesAssumption ==
  /\ OnChain \subseteq Subs
  /\ TestMode \in BOOLEAN
  /\ Period \in Nat \ {0}
  /\ Trials \subseteq Nat /\ 0 \in Trials
  /\ Grace \in Nat
  /\ MaxRetries \in Nat
  /\ FaultKinds \subseteq {"reject", "crash", "late", "unread"}
  /\ MaxNow \in Nat /\ MaxDate \in Nat /\ MaxFaults \in Nat
  /\ \A t \in Trials : MaxNow + t + Period <= MaxDate

VARIABLES
  subs,      \* the subscriptions table
  payments,  \* payments[s][e]: status of the payment for the period of s ending at e
  now,       \* the wall clock
  faults     \* failures of the environment so far

tables == <<subs, payments>>

NoTime == -1
Dates == 0 .. MaxDate

\* EXPIRED is in the schema and in a guard; no code writes it.
Statuses == {"NONE", "TRIALING", "ACTIVE", "PAST_DUE", "CANCELLED", "EXPIRED"}
PaymentStatuses == {"NONE", "PENDING", "PROCESSING", "SUCCESS", "FAILED", "RETRYING"}

Subscription ==
  [status : Statuses, start : Dates \cup {NoTime}, end : Dates,
   cancelAtEnd : BOOLEAN, paused : BOOLEAN, retry : Nat, grace : Nat \cup {NoTime}]

NoSubscription ==
  [status |-> "NONE", start |-> NoTime, end |-> 0, cancelAtEnd |-> FALSE,
   paused |-> FALSE, retry |-> 0, grace |-> NoTime]

Exists(s) == subs[s].status # "NONE"

NextPeriod(t) == t + Period

\* Faulty Due: the end of the period is not compared with the clock.
DueAlways(s) ==
  /\ subs[s].status \in {"ACTIVE", "PAST_DUE"}
  /\ ~subs[s].cancelAtEnd
  /\ ~subs[s].paused

\* findDueSubscriptions
Due(s) ==
  /\ subs[s].status \in {"ACTIVE", "PAST_DUE"}
  /\ subs[s].end <= now
  /\ ~subs[s].cancelAtEnd
  /\ ~subs[s].paused

\* Where processBillingCycle sends a payment for s.
Rail(s) == IF TestMode THEN "test" ELSE IF s \in OnChain THEN "soroban" ELSE "none"

\* One more failure of the environment, within the bound.
Fault == faults < MaxFaults /\ faults' = faults + 1

Tick == now < MaxNow /\ now' = now + 1

TablesInit ==
  /\ subs = [s \in Subs |-> NoSubscription]
  /\ payments = [s \in Subs |-> [e \in Dates |-> "NONE"]]
  /\ now = 0
  /\ faults = 0

TablesTypeOK ==
  /\ subs \in [Subs -> Subscription]
  /\ payments \in [Subs -> [Dates -> PaymentStatuses]]
  /\ now \in 0 .. MaxNow
  /\ faults \in Nat
=============================================================================
