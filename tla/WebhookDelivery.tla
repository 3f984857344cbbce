--------------------------- MODULE WebhookDelivery ---------------------------
(***************************************************************************)
(* The webhook outbox: emitWebhookEvent writes one delivery per endpoint   *)
(* that listens and then queues a job for each; deliverWebhook, run by the *)
(* webhook worker, posts the event and records the outcome; a job whose    *)
(* call throws is tried again, one whose worker died is recovered once.    *)
(*                                                                         *)
(* A delivery has one job (webhook:{delivery id}, never added twice) and a *)
(* job at most one call, so a call's place is kept with its job.           *)
(***************************************************************************)
EXTENDS Integers, FiniteSets

CONSTANTS
  Events,       \* the calls of emitWebhookEvent
  Endpoints,    \* webhook endpoints
  Listens,      \* <<event, endpoint>>: the endpoint subscribes to the event's type
  Attempts,     \* tries a job gets (attempts: 5)
  FaultKinds,   \* which failures of the environment may happen
  MaxFaults     \* bound: how many of them happen in one behaviour

ASSUME WebhookAssumption ==
  /\ Listens \subseteq Events \X Endpoints
  /\ Attempts \in Nat \ {0}
  /\ FaultKinds \subseteq {"reject", "crash", "late"}
  /\ MaxFaults \in Nat

VARIABLES
  endpoints,   \* endpoints[p]: not registered yet, active or deactivated
  emits,       \* emits[e]: where the emission is, and whom it still serves
  rows,        \* the webhook_deliveries table
  jobs,        \* jobs[d]: the job of delivery d and the call that works on it
  posts,       \* posts[d]: requests that were sent for d
  accepted,    \* accepted[d]: those the endpoint took
  faults       \* failures of the environment so far

webhookVars == <<endpoints, emits, rows, jobs, posts, accepted, faults>>

Deliveries == Events \X Endpoints

EmitPcs == {"idle", "event", "rows", "add", "done"}
Row == [status : {"NONE", "PENDING", "DELIVERED", "FAILED"}, count : Nat]

\* The states of a job without a call, and the places a call can be at.
RestPcs == {"absent", "waiting", "stalled", "completed", "failed"}
CallPcs == {"load", "post", "writeDelivered", "writeFailed", "returned", "threw"}
Job == [pc : RestPcs \cup CallPcs, tries : Nat, stalls : Nat]

Fault(kind) == kind \in FaultKinds /\ faults < MaxFaults /\ faults' = faults + 1

WebhookInit ==
  /\ endpoints = [p \in Endpoints |-> "absent"]
  /\ emits = [e \in Events |-> [pc |-> "idle", targets |-> {}]]
  /\ rows = [d \in Deliveries |-> [status |-> "NONE", count |-> 0]]
  /\ jobs = [d \in Deliveries |-> [pc |-> "absent", tries |-> 0, stalls |-> 0]]
  /\ posts = [d \in Deliveries |-> 0]
  /\ accepted = [d \in Deliveries |-> 0]
  /\ faults = 0

-----------------------------------------------------------------------------
(* The routes.                                                              *)

Register(p) ==
  /\ endpoints[p] = "absent"
  /\ endpoints' = [endpoints EXCEPT ![p] = "active"]
  /\ UNCHANGED <<emits, rows, jobs, posts, accepted, faults>>

\* Deliveries that exist already are still sent.
Deactivate(p) ==
  /\ endpoints[p] = "active"
  /\ endpoints' = [endpoints EXCEPT ![p] = "inactive"]
  /\ UNCHANGED <<emits, rows, jobs, posts, accepted, faults>>

-----------------------------------------------------------------------------
(* emitWebhookEvent.                                                        *)

\* Faulty FindEndpoints: the deactivated endpoints are found too.
FindAllEndpoints(e) ==
  /\ emits[e].pc = "idle"
  /\ LET found == {p \in Endpoints : endpoints[p] # "absent" /\ <<e, p>> \in Listens}
     IN emits' = [emits EXCEPT ![e] =
                    [pc |-> IF found = {} THEN "done" ELSE "event", targets |-> found]]
  /\ UNCHANGED <<endpoints, rows, jobs, posts, accepted, faults>>

FindEndpoints(e) ==
  /\ emits[e].pc = "idle"
  /\ LET found == {p \in Endpoints : endpoints[p] = "active" /\ <<e, p>> \in Listens}
     IN emits' = [emits EXCEPT ![e] =
                    [pc |-> IF found = {} THEN "done" ELSE "event", targets |-> found]]
  /\ UNCHANGED <<endpoints, rows, jobs, posts, accepted, faults>>

CreateEvent(e) ==
  /\ emits[e].pc = "event"
  /\ emits' = [emits EXCEPT ![e].pc = "rows"]
  /\ UNCHANGED <<endpoints, rows, jobs, posts, accepted, faults>>

\* Faulty CreateDeliveries: the rows are created one by one.
CreateDeliveriesSingly(e) ==
  /\ emits[e].pc = "rows"
  /\ \E p \in emits[e].targets :
       LET left == {q \in emits[e].targets \ {p} : rows[<<e, q>>].status = "NONE"}
       IN /\ rows[<<e, p>>].status = "NONE"
          /\ rows' = [rows EXCEPT ![<<e, p>>].status = "PENDING"]
          /\ emits' = [emits EXCEPT ![e].pc = IF left = {} THEN "add" ELSE "rows"]
  /\ UNCHANGED <<endpoints, jobs, posts, accepted, faults>>

\* One transaction for all deliveries of the event.
CreateDeliveries(e) ==
  /\ emits[e].pc = "rows"
  /\ rows' = [d \in Deliveries |->
       IF d[1] = e /\ d[2] \in emits[e].targets THEN [rows[d] EXCEPT !.status = "PENDING"]
                                               ELSE rows[d]]
  /\ emits' = [emits EXCEPT ![e].pc = "add"]
  /\ UNCHANGED <<endpoints, jobs, posts, accepted, faults>>

\* Faulty Added: the emission returns with the first add.
AddedFirst(e, p) ==
  /\ emits[e].pc = "add" /\ p \in emits[e].targets
  /\ emits' = [emits EXCEPT ![e] = [pc |-> "done", targets |-> {}]]
  /\ UNCHANGED <<endpoints, rows, posts, accepted>>

\* The adds of Promise.all are all under way at once: each ends on its own.
Added(e, p) ==
  /\ emits[e].pc = "add" /\ p \in emits[e].targets
  /\ emits' = [emits EXCEPT ![e] =
       [pc |-> IF @.targets = {p} THEN "done" ELSE "add", targets |-> @.targets \ {p}]]
  /\ UNCHANGED <<endpoints, rows, posts, accepted>>

AddJob(e, p) ==
  /\ Added(e, p)
  /\ jobs' = [jobs EXCEPT ![<<e, p>>].pc = "waiting"]
  /\ UNCHANGED faults

\* A rejected add makes the emission reject; the other adds go on.
RejectAdd(e, p) == Fault("reject") /\ Added(e, p) /\ UNCHANGED jobs

\* A rejected statement, or the death of the process, ends the emission.
AbortEmit(e) ==
  /\ \/ emits[e].pc \in {"idle", "event", "rows"} /\ Fault("reject")
     \/ emits[e].pc \in {"event", "rows", "add"} /\ Fault("crash")
  /\ emits' = [emits EXCEPT ![e] = [pc |-> "done", targets |-> {}]]
  /\ UNCHANGED <<endpoints, rows, jobs, posts, accepted>>

-----------------------------------------------------------------------------
(* The webhook worker and deliverWebhook.                                   *)

At(d, pc) == jobs[d].pc = pc
Goto(d, pc) == jobs' = [jobs EXCEPT ![d].pc = pc]

Take(d) ==
  /\ At(d, "waiting") /\ Goto(d, "load")
  /\ UNCHANGED <<endpoints, emits, rows, posts, accepted, faults>>

\* findUniqueOrThrow.  Neither the status nor the endpoint's isActive is looked at.
LoadDelivery(d) ==
  /\ At(d, "load") /\ Goto(d, "post")
  /\ UNCHANGED <<endpoints, emits, rows, posts, accepted, faults>>

Posted(d) == At(d, "post") /\ posts' = [posts EXCEPT ![d] = @ + 1]

PostAccepted(d) ==
  /\ Posted(d) /\ Goto(d, "writeDelivered")
  /\ accepted' = [accepted EXCEPT ![d] = @ + 1]
  /\ UNCHANGED <<endpoints, emits, rows, faults>>

\* Faulty PostRefused: an answer other than 2xx does not throw.
RefusalIsDelivered(d) ==
  /\ Posted(d) /\ Goto(d, "writeDelivered")
  /\ UNCHANGED <<endpoints, emits, rows, accepted, faults>>

\* An answer other than 2xx, or none from an endpoint that took nothing.
PostRefused(d) ==
  /\ Posted(d) /\ Goto(d, "writeFailed")
  /\ UNCHANGED <<endpoints, emits, rows, accepted, faults>>

\* The endpoint takes the event, but its answer comes after the 10 s timeout.
PostLate(d) ==
  /\ Fault("late")
  /\ Posted(d) /\ Goto(d, "writeFailed")
  /\ accepted' = [accepted EXCEPT ![d] = @ + 1]
  /\ UNCHANGED <<endpoints, emits, rows>>

Record(d, status) ==
  /\ rows' = [rows EXCEPT ![d] = [status |-> status, count |-> @.count + 1]]
  /\ UNCHANGED <<endpoints, emits, posts, accepted, faults>>

\* Faulty WriteDelivered: attemptCount is left alone.
WriteUncounted(d) ==
  /\ At(d, "writeDelivered") /\ Goto(d, "returned")
  /\ rows' = [rows EXCEPT ![d].status = "DELIVERED"]
  /\ UNCHANGED <<endpoints, emits, posts, accepted, faults>>

WriteDelivered(d) ==
  At(d, "writeDelivered") /\ Goto(d, "returned") /\ Record(d, "DELIVERED")

\* Faulty WriteFailed: a status of the payments is written.
WriteRetrying(d) == At(d, "writeFailed") /\ Goto(d, "threw") /\ Record(d, "RETRYING")

WriteFailed(d) == At(d, "writeFailed") /\ Goto(d, "threw") /\ Record(d, "FAILED")

\* A rejected statement: the one after the post is inside the try.
RejectDeliver(d) ==
  /\ Fault("reject")
  /\ \/ At(d, "load") /\ Goto(d, "threw")
     \/ At(d, "writeDelivered") /\ Goto(d, "writeFailed")
     \/ At(d, "writeFailed") /\ Goto(d, "threw")
  /\ UNCHANGED <<endpoints, emits, rows, posts, accepted>>

CrashWorker(d) ==
  /\ Fault("crash")
  /\ jobs[d].pc \in CallPcs
  /\ Goto(d, "stalled")
  /\ UNCHANGED <<endpoints, emits, rows, posts, accepted>>

\* Faulty Settle: a job that returned is put back like one that threw.
SettleAgain(d) ==
  /\ jobs[d].pc \in {"returned", "threw"}
  /\ jobs' = [jobs EXCEPT ![d] =
       [@ EXCEPT !.pc = IF jobs[d].tries + 1 < Attempts THEN "waiting" ELSE "failed",
                 !.tries = jobs[d].tries + 1]]
  /\ UNCHANGED <<endpoints, emits, rows, posts, accepted, faults>>

\* The queue takes the result of the call.
Settle(d) ==
  /\ \/ At(d, "returned") /\ Goto(d, "completed")
     \/ /\ At(d, "threw")
        /\ jobs' = [jobs EXCEPT ![d] =
             [@ EXCEPT !.pc = IF jobs[d].tries + 1 < Attempts THEN "waiting" ELSE "failed",
                       !.tries = jobs[d].tries + 1]]
  /\ UNCHANGED <<endpoints, emits, rows, posts, accepted, faults>>

\* Faulty Recover: a job that stalled is given up at once.
GiveUp(d) ==
  /\ At(d, "stalled") /\ Goto(d, "failed")
  /\ UNCHANGED <<endpoints, emits, rows, posts, accepted, faults>>

\* The stalled-job check puts the job back once; the second time it fails.
Recover(d) ==
  /\ At(d, "stalled")
  /\ \/ jobs[d].stalls > 0 /\ Goto(d, "failed")
     \/ /\ jobs[d].stalls = 0
        /\ jobs' = [jobs EXCEPT ![d] = [@ EXCEPT !.pc = "waiting", !.stalls = 1]]
  /\ UNCHANGED <<endpoints, emits, rows, posts, accepted, faults>>

-----------------------------------------------------------------------------

EmitStep(e) ==
  \/ FindEndpoints(e) \/ CreateEvent(e) \/ CreateDeliveries(e)
  \/ \E p \in Endpoints : AddJob(e, p)

DeliverStep(d) ==
  \/ Take(d) \/ LoadDelivery(d)
  \/ PostAccepted(d) \/ PostRefused(d)
  \/ WriteDelivered(d) \/ WriteFailed(d)
  \/ Settle(d) \/ Recover(d)

WebhookNext ==
  \/ \E p \in Endpoints : Register(p) \/ Deactivate(p)
  \/ \E e \in Events : EmitStep(e) \/ AbortEmit(e) \/ \E p \in Endpoints : RejectAdd(e, p)
  \/ \E d \in Deliveries : DeliverStep(d) \/ PostLate(d) \/ RejectDeliver(d) \/ CrashWorker(d)

WebhookSafety == WebhookInit /\ [][WebhookNext]_webhookVars

\* An emission that has begun goes on, a free worker takes a waiting job, awaited
\* calls return and the stalled-job check runs.  No one has to emit or register.
WebhookSpec ==
  /\ WebhookSafety
  /\ \A e \in Events : WF_webhookVars(emits[e].pc # "idle" /\ EmitStep(e))
  /\ \A d \in Deliveries : WF_webhookVars(DeliverStep(d))

-----------------------------------------------------------------------------

\* Every variable has the type of the code's rows and locals.
WebhookTypeOK ==
  /\ endpoints \in [Endpoints -> {"absent", "active", "inactive"}]
  /\ emits \in [Events -> [pc : EmitPcs, targets : SUBSET Endpoints]]
  /\ rows \in [Deliveries -> Row]
  /\ jobs \in [Deliveries -> Job]
  /\ posts \in [Deliveries -> Nat]
  /\ accepted \in [Deliveries -> Nat]
  /\ faults \in Nat

\* What the tables and the queue say is true, through rejected updates, crashes and
\* second deliveries: a job completed only with a row that says DELIVERED, and a row
\* says DELIVERED only if the endpoint took the event.
BooksAreTrue ==
  \A d \in Deliveries :
    /\ At(d, "completed") => rows[d].status = "DELIVERED"
    /\ rows[d].status = "DELIVERED" => accepted[d] > 0

\* An endpoint takes an event a second time only because something failed, and no
\* more often than things failed: nothing else sends a delivered event again.
RepostsNeedFaults == \A d \in Deliveries : accepted[d] <= 1 + faults

Unrecorded(d) == IF jobs[d].pc \in {"writeDelivered", "writeFailed"} THEN 1 ELSE 0

\* attemptCount misses no request but those whose record a failure prevented.
AttemptsCounted ==
  \A d \in Deliveries :
    /\ rows[d].count <= posts[d]
    /\ posts[d] <= rows[d].count + Unrecorded(d) + faults

\* A committed delivery is in the queue or still has its emission: between the commit
\* and the last queue.add only a rejected call or a dead process can orphan it.
OrphansNeedFaults ==
  \A e \in Events, p \in Endpoints :
    rows[<<e, p>>].status = "PENDING" /\ At(<<e, p>>, "absent")
      => p \in emits[e].targets \/ faults > 0

\* A deactivated endpoint that no emission still serves and no job still works for.
Quiet(d) ==
  /\ endpoints[d[2]] = "inactive"
  /\ d[2] \notin emits[d[1]].targets
  /\ jobs[d].pc \in {"absent", "completed", "failed"}

\* deliverWebhook does not look at isActive, so what is under way at a deactivation is
\* still posted; once it has ended, no later emission, recovery or retry posts again.
DeactivatedGoesQuiet ==
  [][\A d \in Deliveries : Quiet(d) => Quiet(d)' /\ posts'[d] = posts[d]]_webhookVars

\* A delivery that reached the queue is recorded as delivered or failed.
QueuedIsRecorded ==
  \A d \in Deliveries : At(d, "waiting") ~> rows[d].status \in {"DELIVERED", "FAILED"}

\* Its job has ended; or its add failed, or the emission died before it.
Over(d) ==
  \/ jobs[d].pc \in {"completed", "failed"}
  \/ At(d, "absent") /\ d[2] \notin emits[d[1]].targets

\* The job is over, and the row denies what the endpoint took.
Denied(d) == Over(d) /\ accepted[d] > 0 /\ rows[d].status # "DELIVERED"

\* A delivery that the endpoint took ends as FAILED or PENDING only through a failure of
\* its own: an answer or an update that is lost, or a job that is run again after DELIVERED
\* was written and writes FAILED over it.  One failure spoils the record of one delivery.
DenialsNeedFaults == Cardinality({d \in Deliveries : Denied(d)}) <= faults

Phase(d) ==
  IF rows[d].status = "NONE"
  THEN IF d[2] \in emits[d[1]].targets THEN "addressed" ELSE "none"
  ELSE IF Over(d) THEN "over" ELSE "open"

Outbox == INSTANCE EventOutbox WITH
  phase   <- [d \in Deliveries |-> Phase(d)],
  sent    <- posts,
  taken   <- accepted,
  told    <- [d \in Deliveries |-> rows[d].status = "DELIVERED"],
  mishaps <- faults

\* Through every crash, rejected statement and late answer, the tables and the queue do
\* what the outbox promises: an event goes to exactly those who listened, to all or to
\* none; nobody takes it twice but for a failure; requests are bounded by the attempts and
\* one recovery; no delivery ends that the endpoint has neither taken nor refused that
\* often, unless something failed.
ImplementsOutbox == Outbox!Spec

-----------------------------------------------------------------------------
(* The invariants the proofs of the above rest on.                         *)

\* Until its add, a delivery has no job.
NotQueuedYet ==
  \A e \in Events, p \in Endpoints :
    emits[e].pc = "idle" \/ p \in emits[e].targets => At(<<e, p>>, "absent")

\* An emission that has not begun serves nobody.
NotBegun == \A e \in Events : emits[e].pc = "idle" => emits[e].targets = {}

\* A call that returns has written DELIVERED, and writes it on an accepted request.
Recorded(d) ==
  /\ jobs[d].pc \in {"returned", "completed"} => rows[d].status = "DELIVERED"
  /\ At(d, "writeDelivered") \/ rows[d].status = "DELIVERED" => accepted[d] > 0

\* While another request may follow, each accepted one is due to a failure.
Owed(d) ==
  /\ accepted[d] <= 1 + faults
  /\ jobs[d].pc \notin {"writeDelivered", "returned", "completed", "failed"}
       => accepted[d] <= faults

Counted(d) ==
  /\ rows[d].count + Unrecorded(d) <= posts[d]
  /\ posts[d] <= rows[d].count + Unrecorded(d) + faults

\* The deliveries of an emission have rows from its transaction on, and not before.
CommittedOnce ==
  \A e \in Events, p \in Endpoints :
    LET none == rows[<<e, p>>].status = "NONE"
    IN IF emits[e].pc \in {"idle", "event", "rows"} THEN none ELSE none => p \notin emits[e].targets

\* The requests of a job that goes on: one per try, one more if it was recovered, and, as
\* long as nothing failed, no try without one.
Budget(d) ==
  LET job == jobs[d]
      extra == IF job.pc \in {"absent", "waiting", "load", "post"} THEN 0 ELSE 1
  IN job.pc \notin {"completed", "failed"} =>
       /\ job.tries < Attempts /\ job.stalls <= 1
       /\ posts[d] <= job.tries + job.stalls + extra
       /\ faults = 0 => job.tries + extra = posts[d] /\ job.pc # "stalled"

\* Only after a failure is there work on a delivery that is recorded already.
OnceRecorded(d) ==
  rows[d].status = "DELIVERED" /\ jobs[d].pc \notin {"returned", "completed"} => faults > 0

NoJob(d) ==
  /\ rows[d].status = "NONE" => At(d, "absent")
  /\ At(d, "absent") => jobs[d].tries = 0 /\ jobs[d].stalls = 0 /\ posts[d] = 0

OutboxInv ==
  /\ CommittedOnce
  /\ \A d \in Deliveries : Budget(d) /\ OnceRecorded(d) /\ NoJob(d)

WebhookInv ==
  /\ NotQueuedYet
  /\ \A d \in Deliveries : Recorded(d) /\ Owed(d) /\ Counted(d)
=============================================================================
