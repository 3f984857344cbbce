----------------------------- MODULE PlanCatalog -----------------------------
(***************************************************************************)
(* Plans, wallets, and the subscriptions that clients create on them, with *)
(* the dates of their periods.  POST /subscriptions reads the plan, then   *)
(* upserts the wallet, then creates the row: a plan can be deactivated or  *)
(* given its contract id in between.  Pausing, resuming and billing read   *)
(* the row before they write it, so they overwrite each other's periods.   *)
(***************************************************************************)
EXTENDS Calendar

CONSTANTS
  Plans, Wallets,
  Slots,        \* rows of the subscriptions table
  Requests,     \* requests of the subscription routes in progress at once
  Cycles,       \* billing cycles in progress at once
  Terms,        \* interval, intervalCount and trialDays that merchants ask for
  ContractIds,
  None,         \* no plan, wallet, contract id or row
  Days,         \* bound: the days on which something happens
  MaxPeriods    \* bound: how often a subscription is advanced

ASSUME CatalogAssumption ==
  /\ Terms \subseteq [interval : Intervals, count : Nat \ {0}, trial : Nat]
  /\ None \notin Plans \cup Wallets \cup ContractIds \cup Slots
  /\ Days \subseteq Date
  /\ MaxPeriods \in Nat

VARIABLES
  plans,      \* the plans table
  wallets,    \* the wallets table
  rows,       \* the subscriptions table
  requests,   \* the requests in progress
  cycles,     \* what the billing cycles in progress have read
  today       \* the clock

catalogVars == <<plans, wallets, rows, requests, cycles, today>>

NoTerms == [interval |-> "DAILY", count |-> 1, trial |-> 0]

Plan == [state : {"none", "active", "inactive"}, terms : Terms \cup {NoTerms},
         contract : ContractIds \cup {None}]
NoPlan == [state |-> "none", terms |-> NoTerms, contract |-> None]

\* A row; `anchor` and `periods` say when its first period began and how often it has
\* been advanced since.
Row == [status : {"none", "TRIALING", "ACTIVE"}, plan : Plans \cup {None},
        wallet : Wallets \cup {None}, start : Date, end : Date, paused : BOOLEAN,
        anchor : Date, periods : Nat]

Request == [pc : {"idle", "wallet", "create", "emit", "pause", "resume"},
            plan : Plans \cup {None}, wallet : Wallets \cup {None}, slot : Slots \cup {None}]
IdleRequest == [pc |-> "idle", plan |-> None, wallet |-> None, slot |-> None]

\* `anchor` and `periods` are those of the row that was read.
Cycle == [slot : Slots, end : Date, anchor : Date, periods : Nat]
IdleCycle == [slot |-> None]

Exists(u) == rows[u].status # "none"
TermsOf(u) == plans[rows[u].plan].terms
Next(u, from) == NextPeriod(from, TermsOf(u).interval, TermsOf(u).count)

CatalogInit ==
  /\ plans = [p \in Plans |-> NoPlan]
  /\ wallets = [w \in Wallets |-> "none"]
  /\ today \in Days
  /\ rows = [u \in Slots |->
       [status |-> "none", plan |-> None, wallet |-> None, start |-> today, end |-> today,
        paused |-> FALSE, anchor |-> today, periods |-> 0]]
  /\ requests = [r \in Requests |-> IdleRequest]
  /\ cycles = [c \in Cycles |-> IdleCycle]

-----------------------------------------------------------------------------
(* Plans and wallets.                                                       *)

\* POST /plans and POST /merchants/:address/plans
CreatePlan(p, terms, contract) ==
  /\ plans[p].state = "none"
  /\ plans' = [plans EXCEPT ![p] = [state |-> "active", terms |-> terms, contract |-> contract]]
  /\ UNCHANGED <<wallets, rows, requests, cycles, today>>

\* Faulty SyncContract: it writes the plan as the client that created it knows it.
SyncContractWhole(p, contract) ==
  /\ plans[p].state # "none"
  /\ plans' = [plans EXCEPT ![p] = [@ EXCEPT !.contract = contract, !.state = "active"]]
  /\ UNCHANGED <<wallets, rows, requests, cycles, today>>

\* PATCH /plans/:id/contract, at any time and again.
SyncContract(p, contract) ==
  /\ plans[p].state # "none"
  /\ plans' = [plans EXCEPT ![p].contract = contract]
  /\ UNCHANGED <<wallets, rows, requests, cycles, today>>

\* DELETE /plans/:id
DeactivatePlan(p) ==
  /\ plans[p].state # "none"
  /\ plans' = [plans EXCEPT ![p].state = "inactive"]
  /\ UNCHANGED <<wallets, rows, requests, cycles, today>>

\* POST /wallets/verify and requireWalletAuth, with a signature that is right.
VerifyWallet(w) ==
  /\ wallets' = [wallets EXCEPT ![w] = "verified"]
  /\ UNCHANGED <<plans, rows, requests, cycles, today>>

-----------------------------------------------------------------------------
(* POST /subscriptions.                                                     *)

\* Faulty ReadPlan: any plan that exists will do.
ReadAnyPlan(r, p, w) ==
  /\ requests[r].pc = "idle" /\ plans[p].state # "none"
  /\ requests' = [requests EXCEPT ![r] =
       [pc |-> "wallet", plan |-> p, wallet |-> w, slot |-> None]]
  /\ UNCHANGED <<plans, wallets, rows, cycles, today>>

\* The plan as it is now; one that does not exist or is not active is answered 404.
ReadPlan(r, p, w) ==
  /\ requests[r].pc = "idle" /\ plans[p].state = "active"
  /\ requests' = [requests EXCEPT ![r] =
       [pc |-> "wallet", plan |-> p, wallet |-> w, slot |-> None]]
  /\ UNCHANGED <<plans, wallets, rows, cycles, today>>

\* Faulty UpsertWallet: the wallet is only looked up.
LookUpWallet(r) ==
  /\ requests[r].pc = "wallet"
  /\ requests' = [requests EXCEPT ![r].pc = "create"]
  /\ UNCHANGED <<plans, wallets, rows, cycles, today>>

\* The upsert changes nothing of a wallet that exists.
UpsertWallet(r) ==
  /\ requests[r].pc = "wallet"
  /\ wallets' = [wallets EXCEPT ![requests[r].wallet] = IF @ = "none" THEN "known" ELSE @]
  /\ requests' = [requests EXCEPT ![r].pc = "create"]
  /\ UNCHANGED <<plans, rows, cycles, today>>

\* Nothing asks whether the wallet has this plan already: a request that is sent again
\* makes another subscription.
CreateRow(r, u) ==
  /\ requests[r].pc = "create" /\ ~Exists(u)
  /\ LET terms == plans[requests[r].plan].terms
         start == IF terms.trial > 0 THEN AddDays(today, terms.trial) ELSE today
     IN rows' = [rows EXCEPT ![u] =
          [status |-> IF terms.trial > 0 THEN "TRIALING" ELSE "ACTIVE",
           plan |-> requests[r].plan, wallet |-> requests[r].wallet,
           start |-> start, end |-> NextPeriod(start, terms.interval, terms.count),
           paused |-> FALSE, anchor |-> start, periods |-> 0]]
  /\ requests' = [requests EXCEPT ![r].pc = "emit"]
  /\ UNCHANGED <<plans, wallets, cycles, today>>

\* emitWebhookEvent returns or rejects; or an earlier call does; or the process dies.
EndRequest(r) ==
  /\ requests[r].pc # "idle"
  /\ requests' = [requests EXCEPT ![r] = IdleRequest]
  /\ UNCHANGED <<plans, wallets, rows, cycles, today>>

-----------------------------------------------------------------------------
(* What moves the periods of a subscription.                                *)

\* processBillingCycle reads the row.
ReadCycle(c, u) ==
  /\ cycles[c].slot = None /\ Exists(u) /\ rows[u].periods < MaxPeriods
  /\ cycles' = [cycles EXCEPT ![c] =
       [slot |-> u, end |-> rows[u].end, anchor |-> rows[u].anchor, periods |-> rows[u].periods]]
  /\ UNCHANGED <<plans, wallets, rows, requests, today>>

\* advancePeriod, from the end that was read; the cycle writes the periods no more.
Advance(c) ==
  /\ cycles[c].slot # None
  /\ LET u == cycles[c].slot
     IN rows' = [rows EXCEPT ![u] =
          [rows[u] EXCEPT !.status = "ACTIVE", !.start = cycles[c].end,
                          !.end = Next(u, cycles[c].end), !.anchor = cycles[c].anchor,
                          !.periods = cycles[c].periods + 1]]
  /\ cycles' = [cycles EXCEPT ![c] = IdleCycle]
  /\ UNCHANGED <<plans, wallets, requests, today>>

\* The payment fails, or the cycle does.
EndCycle(c) ==
  /\ cycles[c].slot # None
  /\ cycles' = [cycles EXCEPT ![c] = IdleCycle]
  /\ UNCHANGED <<plans, wallets, rows, requests, today>>

\* POST /:id/pause and resume: 409 unless `paused` is as it should be.
ReadPaused(r, u, pc) ==
  /\ requests[r].pc = "idle" /\ Exists(u)
  /\ rows[u].paused = (pc = "resume")
  /\ requests' = [requests EXCEPT ![r] = [pc |-> pc, plan |-> None, wallet |-> None, slot |-> u]]
  /\ UNCHANGED <<plans, wallets, rows, cycles, today>>

Pause(r) ==
  /\ requests[r].pc = "pause"
  /\ rows' = [rows EXCEPT ![requests[r].slot].paused = TRUE]
  /\ requests' = [requests EXCEPT ![r] = IdleRequest]
  /\ UNCHANGED <<plans, wallets, cycles, today>>

\* Faulty Resume: the end of the period is counted from the old end.
ResumeFromEnd(r) ==
  /\ requests[r].pc = "resume"
  /\ LET u == requests[r].slot
     IN rows' = [rows EXCEPT ![u] =
          [rows[u] EXCEPT !.paused = FALSE, !.start = today, !.end = Next(u, rows[u].end),
                          !.anchor = today, !.periods = 0]]
  /\ requests' = [requests EXCEPT ![r] = IdleRequest]
  /\ UNCHANGED <<plans, wallets, cycles, today>>

\* A new period begins now.
Resume(r) ==
  /\ requests[r].pc = "resume"
  /\ LET u == requests[r].slot
     IN rows' = [rows EXCEPT ![u] =
          [rows[u] EXCEPT !.paused = FALSE, !.start = today, !.end = Next(u, today),
                          !.anchor = today, !.periods = 0]]
  /\ requests' = [requests EXCEPT ![r] = IdleRequest]
  /\ UNCHANGED <<plans, wallets, cycles, today>>

DayPasses(day) ==
  /\ Serial(day) > Serial(today)
  /\ today' = day
  /\ UNCHANGED <<plans, wallets, rows, requests, cycles>>

CatalogNext ==
  \/ \E p \in Plans :
       \/ \E terms \in Terms, contract \in ContractIds \cup {None} : CreatePlan(p, terms, contract)
       \/ \E contract \in ContractIds : SyncContract(p, contract)
       \/ DeactivatePlan(p)
  \/ \E w \in Wallets : VerifyWallet(w)
  \/ \E r \in Requests :
       \/ \E p \in Plans, w \in Wallets : ReadPlan(r, p, w)
       \/ UpsertWallet(r)
       \/ \E u \in Slots : CreateRow(r, u)
       \/ \E u \in Slots, pc \in {"pause", "resume"} : ReadPaused(r, u, pc)
       \/ Pause(r) \/ Resume(r) \/ EndRequest(r)
  \/ \E c \in Cycles : (\E u \in Slots : ReadCycle(c, u)) \/ Advance(c) \/ EndCycle(c)
  \/ \E day \in Days : DayPasses(day)

CatalogSpec == CatalogInit /\ [][CatalogNext]_catalogVars

-----------------------------------------------------------------------------

\* Every variable has the type of the code's rows; the dates exist in the calendar, and
\* the plan and the wallet that a subscription or a request names are in their tables.
CatalogTypeOK ==
  /\ plans \in [Plans -> Plan]
  /\ \A p \in Plans : plans[p].state # "none" => plans[p].terms \in Terms
  /\ wallets \in [Wallets -> {"none", "known", "verified"}]
  /\ rows \in [Slots -> Row]
  /\ \A u \in Slots : Exists(u) =>
       /\ rows[u].plan \in Plans /\ plans[rows[u].plan].state # "none"
       /\ rows[u].wallet \in Wallets /\ wallets[rows[u].wallet] # "none"
  /\ requests \in [Requests -> Request]
  /\ \A r \in Requests : requests[r].pc \in {"pause", "resume"} =>
       requests[r].slot \in Slots /\ Exists(requests[r].slot)
  /\ cycles \in [Cycles -> Cycle \cup {IdleCycle}]
  /\ \A c \in Cycles : cycles[c].slot # None => Exists(cycles[c].slot)
  /\ \A r \in Requests : requests[r].pc \in {"wallet", "create", "emit"} =>
       /\ requests[r].plan \in Plans /\ plans[requests[r].plan].state # "none"
       /\ requests[r].wallet \in Wallets
       /\ requests[r].pc # "wallet" => wallets[requests[r].wallet] # "none"
  /\ today \in Date

\* Months of an interval; DAILY and WEEKLY have none.
Months(terms) ==
  CASE terms.interval = "MONTHLY" -> terms.count
    [] terms.interval = "YEARLY"  -> 12 * terms.count
    [] OTHER                      -> 0

\* Days of an interval; MONTHLY and YEARLY have none.
DaysOf(terms) ==
  CASE terms.interval = "DAILY"  -> terms.count
    [] terms.interval = "WEEKLY" -> 7 * terms.count
    [] OTHER                     -> 0

\* A row of terms t, or what a cycle has read of it, ends as many whole intervals after
\* its anchor as it has had periods: to the day, or on its day of the month, or spilled
\* over once.
DayKept(row, t) ==
  IF Months(t) = 0
  THEN Serial(row.end) = Serial(row.anchor) + DaysOf(t) * (row.periods + 1)
  ELSE LET month == row.anchor.m + Months(t) * (row.periods + 1)
       IN \/ row.end = [m |-> month, d |-> row.anchor.d]
          \/ row.end.m = month + 1 /\ row.end.d <= 3 /\ row.anchor.d >= 29

\* However often it is billed, a subscription neither gains nor loses a day: a daily or
\* weekly one ends whole intervals after it began, a monthly or yearly one keeps its day
\* of the month.  One that began after the 28th may lose that once, to the first days of
\* the month after, and from then on keeps that one: the overflows do not add up, not
\* even when a cycle that read the row before a resume writes it after.
BillingDayKept == \A u \in Slots : Exists(u) => DayKept(rows[u], TermsOf(u))

On(p) == {u \in Slots : Exists(u) /\ rows[u].plan = p}
Reading(p) == {r \in Requests : requests[r].pc \in {"wallet", "create"} /\ requests[r].plan = p}

\* Once a plan is deactivated, and the requests that read it before have ended, nobody
\* is subscribed to it any more, and syncing its contract does not bring it back.
RetiredStaysRetired ==
  [][\A p \in Plans :
       plans[p].state = "inactive" /\ Reading(p) = {}
         => plans'[p].state = "inactive" /\ Reading(p)' = {} /\ On(p)' = On(p)]_catalogVars
=============================================================================
