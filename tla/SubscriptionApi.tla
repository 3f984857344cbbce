--------------------------- MODULE SubscriptionApi ---------------------------
(***************************************************************************)
(* The subscription routes that write: create, cancel, pause and resume.   *)
(* Cancel, pause and resume first read the row and then update it, and     *)
(* anything can happen between the two.                                    *)
(***************************************************************************)
EXTENDS BillingTables

CONSTANTS
  Requests,   \* slots for requests being handled
  Ops         \* the operations clients use

ASSUME ApiAssumption == Ops \subseteq {"cancelNow", "cancelAtEnd", "pause", "resume"}

VARIABLE requests   \* requests[r]: the operation, its subscription, the status it read

NoRequest == [op |-> "none"]
Request == [op : Ops, sub : Subs, status : Statuses]

\* POST /subscriptions: a trial moves the whole first period, not just its start.
CreateSubscription(s, trial) ==
  /\ ~Exists(s)
  /\ subs' = [subs EXCEPT ![s] =
       [NoSubscription EXCEPT
          !.status = IF trial > 0 THEN "TRIALING" ELSE "ACTIVE",
          !.start  = now + trial,
          !.end    = NextPeriod(now + trial)]]
  /\ UNCHANGED <<payments, now, faults, requests>>

\* findUnique and the 404 and 409 answers.
ReadForUpdate(r, op, s) ==
  /\ requests[r] = NoRequest
  /\ Exists(s)
  /\ op = "pause" => ~subs[s].paused
  /\ op = "resume" => subs[s].paused
  /\ requests' = [requests EXCEPT ![r] = [op |-> op, sub |-> s, status |-> subs[s].status]]
  /\ UNCHANGED <<tables, now, faults>>

Pending(r, op) == requests[r] # NoRequest /\ requests[r].op = op

Reply(r, row) ==
  /\ subs' = [subs EXCEPT ![requests[r].sub] = row]
  /\ requests' = [requests EXCEPT ![r] = NoRequest]
  /\ UNCHANGED <<payments, now, faults>>

CancelNow(r) ==
  /\ Pending(r, "cancelNow")
  /\ Reply(r, [subs[requests[r].sub] EXCEPT !.cancelAtEnd = FALSE, !.status = "CANCELLED"])

\* Faulty CancelAtEnd: the subscription is always active until the end.
CancelAtEndActive(r) ==
  /\ Pending(r, "cancelAtEnd")
  /\ Reply(r, [subs[requests[r].sub] EXCEPT !.cancelAtEnd = TRUE, !.status = "ACTIVE"])

\* The status written back is the one the request read.
CancelAtEnd(r) ==
  /\ Pending(r, "cancelAtEnd")
  /\ Reply(r, [subs[requests[r].sub] EXCEPT
                 !.cancelAtEnd = TRUE, !.status = requests[r].status])

Pause(r) ==
  /\ Pending(r, "pause")
  /\ Reply(r, [subs[requests[r].sub] EXCEPT !.paused = TRUE])

\* Faulty Resume: the period end is lost.
ResumeWithoutEnd(r) ==
  /\ Pending(r, "resume")
  /\ Reply(r, [subs[requests[r].sub] EXCEPT
                 !.paused = FALSE, !.start = now, !.end = NoTime])

\* A fresh period from now; the status stays what it is.
Resume(r) ==
  /\ Pending(r, "resume")
  /\ Reply(r, [subs[requests[r].sub] EXCEPT
                 !.paused = FALSE, !.start = now, !.end = NextPeriod(now)])

ApiStep ==
  \/ \E s \in Subs, trial \in Trials : CreateSubscription(s, trial)
  \/ \E r \in Requests, op \in Ops, s \in Subs : ReadForUpdate(r, op, s)
  \/ \E r \in Requests : CancelNow(r) \/ CancelAtEnd(r) \/ Pause(r) \/ Resume(r)

ApiInit == requests = [r \in Requests |-> NoRequest]

ApiTypeOK == requests \in [Requests -> Request \cup {NoRequest}]
=============================================================================
