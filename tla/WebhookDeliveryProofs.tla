------------------------ MODULE WebhookDeliveryProofs ------------------------
(***************************************************************************)
(* What holds of WebhookDelivery for any number of events, endpoints,      *)
(* tries and failures.                                                     *)
(***************************************************************************)
EXTENDS WebhookDelivery, FiniteSetTheorems, TLAPS

-----------------------------------------------------------------------------
(* Types.                                                                   *)

LEMMA InitTypeOK == WebhookInit => WebhookTypeOK
BY SMT DEF WebhookInit, WebhookTypeOK, EmitPcs, Row, Job, RestPcs, CallPcs

\* The moves of a call keep the types.
LEMMA GotoType ==
  ASSUME WebhookTypeOK, NEW d \in Deliveries, NEW pc \in RestPcs \cup CallPcs, Goto(d, pc)
  PROVE  /\ jobs' \in [Deliveries -> Job]
         /\ jobs'[d] = [jobs[d] EXCEPT !.pc = pc]
         /\ jobs'[d].pc = pc
         /\ \A k \in Deliveries \ {d} : jobs'[k] = jobs[k]
<1>1. jobs \in [Deliveries -> Job] /\ jobs[d] \in Job
  BY DEF WebhookTypeOK
<1>2. [jobs[d] EXCEPT !.pc = pc] \in Job
  BY <1>1, Zenon DEF Job
<1>3. [jobs[d] EXCEPT !.pc = pc].pc = pc
  BY <1>1, SMT DEF Job
<1>. QED
  BY <1>1, <1>2, <1>3, SMT DEF Goto

\* A record of the outcome keeps the types.
LEMMA RecordType ==
  ASSUME WebhookTypeOK, NEW d \in Deliveries, NEW status \in {"DELIVERED", "FAILED"},
         Record(d, status)
  PROVE  /\ rows' \in [Deliveries -> Row]
         /\ rows'[d].status = status /\ rows'[d].count = rows[d].count + 1
         /\ \A k \in Deliveries \ {d} : rows'[k] = rows[k]
BY SMT DEF Record, WebhookTypeOK, Row

\* Putting a job back, or giving it up, keeps the types.
LEMMA SettleType ==
  ASSUME WebhookTypeOK, NEW d \in Deliveries, Settle(d) \/ Recover(d)
  PROVE  /\ jobs' \in [Deliveries -> Job]
         /\ \A k \in Deliveries \ {d} : jobs'[k] = jobs[k]
         /\ \/ At(d, "returned") /\ jobs'[d].pc = "completed"
            \/ jobs[d].pc \in {"threw", "stalled"} /\ jobs'[d].pc \in {"waiting", "failed"}
<1>. jobs \in [Deliveries -> Job] /\ jobs[d] \in Job /\ jobs[d].tries + 1 \in Nat
  BY DEF WebhookTypeOK, Job
<1>. {"completed", "failed", "waiting"} \subseteq RestPcs \cup CallPcs
  BY DEF RestPcs
<1>1. ASSUME NEW pc \in {"completed", "failed"}, Goto(d, pc)
      PROVE  /\ jobs' \in [Deliveries -> Job]
             /\ \A k \in Deliveries \ {d} : jobs'[k] = jobs[k]
             /\ jobs'[d].pc = pc
  BY <1>1, GotoType
<1>2. ASSUME At(d, "threw"), NEW pc \in {"waiting", "failed"},
             jobs' = [jobs EXCEPT ![d] = [@ EXCEPT !.pc = pc, !.tries = jobs[d].tries + 1]]
      PROVE  /\ jobs' \in [Deliveries -> Job]
             /\ \A k \in Deliveries \ {d} : jobs'[k] = jobs[k]
             /\ jobs[d].pc = "threw" /\ jobs'[d].pc = pc
  <2>. DEFINE job == [jobs[d] EXCEPT !.pc = pc, !.tries = jobs[d].tries + 1]
  <2>1. job \in Job
    BY Zenon DEF Job
  <2>2. job.pc = pc
    BY SMT DEF Job
  <2>3. jobs' = [jobs EXCEPT ![d] = job]
    BY <1>2
  <2>. HIDE DEF job
  <2>. QED
    BY <1>2, <2>1, <2>2, <2>3 DEF At
<1>3. ASSUME At(d, "stalled"),
             jobs' = [jobs EXCEPT ![d] = [@ EXCEPT !.pc = "waiting", !.stalls = 1]]
      PROVE  /\ jobs' \in [Deliveries -> Job]
             /\ \A k \in Deliveries \ {d} : jobs'[k] = jobs[k]
             /\ jobs[d].pc = "stalled" /\ jobs'[d].pc = "waiting"
  <2>. DEFINE job == [jobs[d] EXCEPT !.pc = "waiting", !.stalls = 1]
  <2>1. job \in Job
    <3>. 1 \in Nat
      OBVIOUS
    <3>. QED
      BY Zenon DEF Job
  <2>2. job.pc = "waiting"
    BY SMT DEF Job
  <2>3. jobs' = [jobs EXCEPT ![d] = job]
    BY <1>3
  <2>. HIDE DEF job
  <2>. QED
    BY <1>3, <2>1, <2>2, <2>3 DEF At
<1>4. CASE Settle(d)
  <2>1. CASE At(d, "returned") /\ Goto(d, "completed")
    BY <1>1, <2>1 DEF At
  <2>2. CASE At(d, "threw") /\ jobs' = [jobs EXCEPT ![d] =
               [@ EXCEPT !.pc = IF jobs[d].tries + 1 < Attempts THEN "waiting" ELSE "failed",
                         !.tries = jobs[d].tries + 1]]
    <3>. DEFINE pc == IF jobs[d].tries + 1 < Attempts THEN "waiting" ELSE "failed"
    <3>1. pc \in {"waiting", "failed"}
      OBVIOUS
    <3>2. jobs' = [jobs EXCEPT ![d] = [@ EXCEPT !.pc = pc, !.tries = jobs[d].tries + 1]]
      BY <2>2
    <3>. HIDE DEF pc
    <3>. QED
      BY <1>2, <2>2, <3>1, <3>2
  <2>. QED
    BY <1>4, <2>1, <2>2 DEF Settle
<1>5. CASE Recover(d)
  BY <1>1, <1>3, <1>5 DEF Recover, At
<1>. QED
  BY <1>4, <1>5

\* A step of a call that posts at most one request keeps the types.
LEMMA CallType ==
  ASSUME WebhookTypeOK, NEW d \in Deliveries, NEW pc \in RestPcs \cup CallPcs, Goto(d, pc),
         posts' = posts \/ posts' = [posts EXCEPT ![d] = @ + 1],
         accepted' = accepted \/ accepted' = [accepted EXCEPT ![d] = @ + 1],
         faults' = faults \/ faults' = faults + 1,
         UNCHANGED <<endpoints, emits, rows>>
  PROVE  WebhookTypeOK'
<1>1. jobs' \in [Deliveries -> Job]
  BY GotoType
<1>2. posts' \in [Deliveries -> Nat] /\ accepted' \in [Deliveries -> Nat] /\ faults' \in Nat
  BY SMT DEF WebhookTypeOK
<1>. QED
  BY <1>1, <1>2 DEF WebhookTypeOK

\* Every step keeps the types.
LEMMA NextTypeOK == WebhookTypeOK /\ [WebhookNext]_webhookVars => WebhookTypeOK'
<1> SUFFICES ASSUME WebhookTypeOK, [WebhookNext]_webhookVars PROVE WebhookTypeOK'
  OBVIOUS
<1>1. ASSUME NEW p \in Endpoints, Register(p) \/ Deactivate(p) PROVE WebhookTypeOK'
  BY <1>1, SMT DEF Register, Deactivate, WebhookTypeOK
<1>2. ASSUME NEW e \in Events, EmitStep(e) PROVE WebhookTypeOK'
  <2>1. CASE FindEndpoints(e)
    <3>. DEFINE found == {p \in Endpoints : endpoints[p] = "active" /\ <<e, p>> \in Listens}
                pc == IF found = {} THEN "done" ELSE "event"
    <3>1. [pc |-> pc, targets |-> found] \in [pc : EmitPcs, targets : SUBSET Endpoints]
      BY DEF EmitPcs
    <3>2. emits' = [emits EXCEPT ![e] = [pc |-> pc, targets |-> found]]
      BY <2>1 DEF FindEndpoints
    <3>. HIDE DEF pc, found
    <3>. QED
      BY <2>1, <3>1, <3>2 DEF FindEndpoints, WebhookTypeOK
  <2>4. CASE CreateEvent(e)
    BY <2>4, SMT DEF CreateEvent, WebhookTypeOK, EmitPcs
  <2>2. CASE CreateDeliveries(e)
    <3>1. emits' \in [Events -> [pc : EmitPcs, targets : SUBSET Endpoints]]
      BY <2>2, SMT DEF CreateDeliveries, WebhookTypeOK, EmitPcs
    <3>2. rows' \in [Deliveries -> Row]
      BY <2>2, SMT DEF CreateDeliveries, WebhookTypeOK, Row
    <3>. QED
      BY <2>2, <3>1, <3>2 DEF CreateDeliveries, WebhookTypeOK
  <2>3. ASSUME NEW p \in Endpoints, AddJob(e, p) PROVE WebhookTypeOK'
    <3>1. <<e, p>> \in Deliveries /\ Goto(<<e, p>>, "waiting")
      BY <2>3 DEF AddJob, Goto, Deliveries
    <3>2. jobs' \in [Deliveries -> Job]
      BY <3>1, GotoType DEF RestPcs
    <3>3. emits' \in [Events -> [pc : EmitPcs, targets : SUBSET Endpoints]]
      BY <2>3, SMT DEF AddJob, Added, WebhookTypeOK, EmitPcs
    <3>. QED
      BY <2>3, <3>2, <3>3 DEF AddJob, Added, WebhookTypeOK
  <2>. QED
    BY <1>2, <2>1, <2>2, <2>3, <2>4 DEF EmitStep
<1>3. ASSUME NEW e \in Events, AbortEmit(e) PROVE WebhookTypeOK'
  BY <1>3, SMT DEF AbortEmit, Fault, WebhookTypeOK, EmitPcs
<1>4. ASSUME NEW e \in Events, NEW p \in Endpoints, RejectAdd(e, p) PROVE WebhookTypeOK'
  BY <1>4, SMT DEF RejectAdd, Added, Fault, WebhookTypeOK, EmitPcs
<1>5. ASSUME NEW d \in Deliveries, DeliverStep(d) PROVE WebhookTypeOK'
  <2>1. CASE Settle(d) \/ Recover(d)
    BY <2>1, SettleType DEF Settle, Recover, WebhookTypeOK
  <2>2. CASE WriteDelivered(d) \/ WriteFailed(d)
    BY <2>2, RecordType, GotoType DEF WriteDelivered, WriteFailed, Record, CallPcs, WebhookTypeOK
  <2>3. CASE Take(d) \/ LoadDelivery(d)
    BY <2>3, CallType DEF Take, LoadDelivery, CallPcs
  <2>4. CASE PostAccepted(d) \/ PostRefused(d)
    BY <2>4, CallType DEF PostAccepted, PostRefused, Posted, CallPcs
  <2>. QED
    BY <1>5, <2>1, <2>2, <2>3, <2>4 DEF DeliverStep
<1>6. ASSUME NEW d \in Deliveries, PostLate(d) \/ RejectDeliver(d) \/ CrashWorker(d)
      PROVE  WebhookTypeOK'
  BY <1>6, CallType DEF PostLate, RejectDeliver, CrashWorker, Posted, Fault, CallPcs, RestPcs
<1>7. CASE UNCHANGED webhookVars
  BY <1>7 DEF webhookVars, WebhookTypeOK
<1>. QED
  BY <1>1, <1>2, <1>3, <1>4, <1>5, <1>6, <1>7 DEF WebhookNext

\* Rows, jobs and emissions are well typed, for any number of events and endpoints.
THEOREM DeliveriesTyped == WebhookSafety => []WebhookTypeOK
BY InitTypeOK, NextTypeOK, PTL DEF WebhookSafety

-----------------------------------------------------------------------------
(* Deliveries.                                                              *)

LEMMA InitWebhookInv == WebhookInit => WebhookInv
BY SMT DEF WebhookInit, WebhookInv, NotQueuedYet, Recorded, Owed, Counted, Unrecorded,
           At, Deliveries

\* The invariant of a delivery holds again when nothing of it has changed, or when
\* only the number of failures has grown.
LEMMA Untouched ==
  ASSUME WebhookTypeOK, NEW d \in Deliveries, Recorded(d), Owed(d), Counted(d),
         rows'[d] = rows[d], jobs'[d] = jobs[d], posts'[d] = posts[d],
         accepted'[d] = accepted[d], faults' = faults \/ faults' = faults + 1
  PROVE  Recorded(d)' /\ Owed(d)' /\ Counted(d)'
BY SMT DEF WebhookTypeOK, Row, Recorded, Owed, Counted, Unrecorded, At

\* A delivery that gets its row has no job yet.
LEMMA Committed ==
  ASSUME WebhookTypeOK, WebhookInv, NEW e \in Events, CreateDeliveries(e), NEW d \in Deliveries
  PROVE  Recorded(d)' /\ Owed(d)' /\ Counted(d)'
<1>1. CASE d[1] = e /\ d[2] \in emits[e].targets
  <2>1. At(d, "absent")
    BY <1>1 DEF WebhookInv, NotQueuedYet, Deliveries
  <2>2. /\ rows'[d].status = "PENDING" /\ rows'[d].count = rows[d].count
        /\ jobs'[d] = jobs[d] /\ posts'[d] = posts[d] /\ accepted'[d] = accepted[d]
        /\ faults' = faults
    BY <1>1, SMT DEF CreateDeliveries, WebhookTypeOK, Row
  <2>. QED
    BY <2>1, <2>2, SMT DEF WebhookInv, WebhookTypeOK, Row, Recorded, Owed, Counted, Unrecorded, At
<1>2. CASE ~(d[1] = e /\ d[2] \in emits[e].targets)
  <2>1. /\ rows'[d] = rows[d] /\ jobs'[d] = jobs[d] /\ posts'[d] = posts[d]
        /\ accepted'[d] = accepted[d] /\ faults' = faults
    BY <1>2 DEF CreateDeliveries
  <2>. QED
    BY <2>1, Untouched DEF WebhookInv
<1>. QED
  BY <1>1, <1>2

\* A step of the job or the call of d keeps the invariant of d.
LEMMA Worked ==
  ASSUME WebhookTypeOK, WebhookInv, NEW d \in Deliveries,
         DeliverStep(d) \/ PostLate(d) \/ RejectDeliver(d) \/ CrashWorker(d)
  PROVE  Recorded(d)' /\ Owed(d)' /\ Counted(d)'
<1>. /\ Recorded(d) /\ Owed(d) /\ Counted(d)
     /\ rows[d].count \in Nat /\ posts[d] \in Nat /\ accepted[d] \in Nat /\ faults \in Nat
     /\ posts \in [Deliveries -> Nat] /\ accepted \in [Deliveries -> Nat]
  BY DEF WebhookInv, WebhookTypeOK, Row
<1>. USE DEF Recorded, Owed, Counted, Unrecorded, At
<1>1. CASE Settle(d) \/ Recover(d)
  <2>1. \/ At(d, "returned") /\ jobs'[d].pc = "completed"
        \/ jobs[d].pc \in {"threw", "stalled"} /\ jobs'[d].pc \in {"waiting", "failed"}
    BY <1>1, SettleType
  <2>2. UNCHANGED <<rows, posts, accepted, faults>>
    BY <1>1 DEF Settle, Recover
  <2>. QED
    BY <2>1, <2>2, SMT
<1>2. CASE WriteDelivered(d)
  <2>1. rows'[d].status = "DELIVERED" /\ rows'[d].count = rows[d].count + 1
    BY <1>2, RecordType DEF WriteDelivered
  <2>2. jobs'[d].pc = "returned"
    BY <1>2, GotoType DEF WriteDelivered, CallPcs
  <2>. QED
    BY <1>2, <2>1, <2>2, SMT DEF WriteDelivered, Record
<1>3. CASE WriteFailed(d)
  <2>1. rows'[d].status = "FAILED" /\ rows'[d].count = rows[d].count + 1
    BY <1>3, RecordType DEF WriteFailed
  <2>2. jobs'[d].pc = "threw"
    BY <1>3, GotoType DEF WriteFailed, CallPcs
  <2>. QED
    BY <1>3, <2>1, <2>2, SMT DEF WriteFailed, Record
<1>4. CASE Take(d) \/ LoadDelivery(d)
  <2>1. jobs'[d].pc \in {"load", "post"}
    BY <1>4, GotoType DEF Take, LoadDelivery, CallPcs
  <2>. QED
    BY <1>4, <2>1, SMT DEF Take, LoadDelivery
<1>5. CASE PostAccepted(d)
  <2>1. jobs'[d].pc = "writeDelivered"
    BY <1>5, GotoType DEF PostAccepted, CallPcs
  <2>. QED
    BY <1>5, <2>1, SMT DEF PostAccepted, Posted
<1>6. CASE PostRefused(d)
  <2>1. jobs'[d].pc = "writeFailed"
    BY <1>6, GotoType DEF PostRefused, CallPcs
  <2>. QED
    BY <1>6, <2>1, SMT DEF PostRefused, Posted
<1>7. CASE PostLate(d)
  <2>1. jobs'[d].pc = "writeFailed"
    BY <1>7, GotoType DEF PostLate, CallPcs
  <2>. QED
    BY <1>7, <2>1, SMT DEF PostLate, Posted, Fault
<1>8. CASE RejectDeliver(d)
  <2>1. \/ At(d, "load") /\ jobs'[d].pc = "threw"
        \/ At(d, "writeDelivered") /\ jobs'[d].pc = "writeFailed"
        \/ At(d, "writeFailed") /\ jobs'[d].pc = "threw"
    BY <1>8, GotoType DEF RejectDeliver, CallPcs
  <2>. QED
    BY <1>8, <2>1, SMT DEF RejectDeliver, Fault
<1>9. CASE CrashWorker(d)
  <2>1. jobs'[d].pc = "stalled"
    BY <1>9, GotoType DEF CrashWorker, RestPcs
  <2>. QED
    BY <1>9, <2>1, SMT DEF CrashWorker, Fault, CallPcs
<1>. QED
  BY <1>1, <1>2, <1>3, <1>4, <1>5, <1>6, <1>7, <1>8, <1>9 DEF DeliverStep

\* It leaves the other deliveries alone.
LEMMA Aside ==
  ASSUME WebhookTypeOK, NEW d \in Deliveries,
         DeliverStep(d) \/ PostLate(d) \/ RejectDeliver(d) \/ CrashWorker(d)
  PROVE  /\ \A k \in Deliveries \ {d} :
              /\ rows'[k] = rows[k] /\ jobs'[k] = jobs[k]
              /\ posts'[k] = posts[k] /\ accepted'[k] = accepted[k]
         /\ faults' = faults \/ faults' = faults + 1
         /\ UNCHANGED <<endpoints, emits>>
         /\ ~At(d, "absent")
<1>. jobs \in [Deliveries -> Job] /\ posts \in [Deliveries -> Nat] /\ accepted \in [Deliveries -> Nat]
  BY DEF WebhookTypeOK
<1>1. CASE Settle(d) \/ Recover(d)
  BY <1>1, SettleType DEF Settle, Recover, At
<1>2. CASE WriteDelivered(d) \/ WriteFailed(d)
  BY <1>2, RecordType, GotoType DEF WriteDelivered, WriteFailed, Record, CallPcs, At
<1>3. CASE Take(d) \/ LoadDelivery(d)
  BY <1>3, GotoType DEF Take, LoadDelivery, CallPcs, At
<1>4. CASE PostAccepted(d) \/ PostRefused(d)
  BY <1>4, GotoType DEF PostAccepted, PostRefused, Posted, CallPcs, At
<1>5. CASE PostLate(d)
  BY <1>5, GotoType DEF PostLate, Posted, Fault, CallPcs, At
<1>6. CASE RejectDeliver(d) \/ CrashWorker(d)
  BY <1>6, GotoType DEF RejectDeliver, CrashWorker, Fault, CallPcs, RestPcs, At
<1>. QED
  BY <1>1, <1>2, <1>3, <1>4, <1>5, <1>6 DEF DeliverStep

\* A step of an emission serves no one it did not serve before, unless it begins, and an
\* add is the last it does for an endpoint.
LEMMA EmitMoves ==
  ASSUME WebhookTypeOK, NEW f \in Events, NEW e \in Events, NEW p \in Endpoints,
         emits'[e].pc = "idle" \/ p \in emits'[e].targets
  PROVE  /\ FindEndpoints(f) \/ CreateEvent(f) \/ CreateDeliveries(f) \/ AbortEmit(f)
              => emits[e].pc = "idle" \/ p \in emits[e].targets
         /\ \A q \in Endpoints : Added(f, q) =>
              <<e, p>> # <<f, q>> /\ (emits[e].pc = "idle" \/ p \in emits[e].targets)
<1>. /\ emits \in [Events -> [pc : EmitPcs, targets : SUBSET Endpoints]]
     /\ emits[f] \in [pc : EmitPcs, targets : SUBSET Endpoints]
  BY DEF WebhookTypeOK
<1>1. ASSUME f # e, FindEndpoints(f) \/ CreateEvent(f) \/ CreateDeliveries(f) \/ AbortEmit(f)
      PROVE  emits'[e] = emits[e]
  BY <1>1 DEF FindEndpoints, CreateEvent, CreateDeliveries, AbortEmit
<1>2. ASSUME f = e, FindEndpoints(f) PROVE emits[e].pc = "idle"
  BY <1>2 DEF FindEndpoints
<1>3. ASSUME f = e, CreateEvent(f) \/ CreateDeliveries(f)
      PROVE  p \in emits[e].targets
  BY <1>3, SMT DEF CreateEvent, CreateDeliveries
<1>4. ASSUME f = e, AbortEmit(f) PROVE FALSE
  <2>1. emits'[e] = [pc |-> "done", targets |-> {}]
    BY <1>4 DEF AbortEmit
  <2>. QED
    BY <2>1
<1>5. ASSUME NEW q \in Endpoints, Added(f, q)
      PROVE  <<e, p>> # <<f, q>> /\ (emits[e].pc = "idle" \/ p \in emits[e].targets)
  <2>1. CASE f # e
    <3>1. emits'[e] = emits[e]
      BY <1>5, <2>1 DEF Added
    <3>. QED
      BY <2>1, <3>1
  <2>2. CASE f = e
    <3>1. /\ emits'[e].pc \in {"done", "add"}
          /\ emits'[e].targets = emits[e].targets \ {q}
      BY <1>5, <2>2, SMT DEF Added
    <3>. QED
      BY <2>2, <3>1
  <2>. QED
    BY <2>1, <2>2
<1>. QED
  BY <1>1, <1>2, <1>3, <1>4, <1>5

\* No delivery has a job before its add.
LEMMA NextNotQueued ==
  WebhookTypeOK /\ NotQueuedYet /\ [WebhookNext]_webhookVars => NotQueuedYet'
<1> SUFFICES ASSUME WebhookTypeOK, NotQueuedYet, [WebhookNext]_webhookVars,
                    NEW e \in Events, NEW p \in Endpoints,
                    emits'[e].pc = "idle" \/ p \in emits'[e].targets
             PROVE  At(<<e, p>>, "absent")'
  BY DEF NotQueuedYet
<1>. <<e, p>> \in Deliveries
  BY DEF Deliveries
<1>1. CASE UNCHANGED <<emits, jobs>>
  BY <1>1 DEF NotQueuedYet, At
<1>2. ASSUME NEW f \in Events, EmitStep(f) \/ AbortEmit(f) \/ \E q \in Endpoints : RejectAdd(f, q),
             UNCHANGED jobs
      PROVE  At(<<e, p>>, "absent")'
  <2>1. emits[e].pc = "idle" \/ p \in emits[e].targets
    <3>1. CASE FindEndpoints(f) \/ CreateEvent(f)
      BY <3>1, EmitMoves
    <3>2. CASE CreateDeliveries(f)
      BY <3>2, EmitMoves
    <3>3. CASE AbortEmit(f)
      BY <3>3, EmitMoves
    <3>4. ASSUME NEW q \in Endpoints, Added(f, q)
          PROVE  emits[e].pc = "idle" \/ p \in emits[e].targets
      BY <3>4, EmitMoves
    <3>. QED
      BY <1>2, <3>1, <3>2, <3>3, <3>4 DEF EmitStep, AddJob, RejectAdd
  <2>. QED
    BY <1>2, <2>1 DEF NotQueuedYet, At
<1>3. ASSUME NEW f \in Events, NEW q \in Endpoints, AddJob(f, q)
      PROVE  At(<<e, p>>, "absent")'
  <2>1. <<f, q>> \in Deliveries /\ Goto(<<f, q>>, "waiting")
    BY <1>3 DEF AddJob, Goto, Deliveries
  <2>2. <<e, p>> # <<f, q>> /\ (emits[e].pc = "idle" \/ p \in emits[e].targets)
    <3>. Added(f, q)
      BY <1>3 DEF AddJob
    <3>. QED
      BY EmitMoves
  <2>3. jobs'[<<e, p>>] = jobs[<<e, p>>]
    BY <2>1, <2>2, GotoType DEF RestPcs
  <2>. QED
    BY <2>2, <2>3 DEF NotQueuedYet, At
<1>4. ASSUME NEW d \in Deliveries,
             DeliverStep(d) \/ PostLate(d) \/ RejectDeliver(d) \/ CrashWorker(d)
      PROVE  At(<<e, p>>, "absent")'
  BY <1>4, Aside DEF NotQueuedYet, At
<1>. QED
  BY <1>1, <1>2, <1>3, <1>4
  DEF WebhookNext, webhookVars, Register, Deactivate, EmitStep, FindEndpoints, CreateEvent,
      CreateDeliveries, AbortEmit, RejectAdd

LEMMA NextWebhookInv ==
  WebhookTypeOK /\ WebhookInv /\ [WebhookNext]_webhookVars => WebhookInv'
<1> SUFFICES ASSUME WebhookTypeOK, WebhookInv, [WebhookNext]_webhookVars PROVE WebhookInv'
  OBVIOUS
<1>1. NotQueuedYet'
  BY NextNotQueued DEF WebhookInv
<1> SUFFICES ASSUME NEW d \in Deliveries PROVE Recorded(d)' /\ Owed(d)' /\ Counted(d)'
  BY <1>1 DEF WebhookInv
<1>2. ASSUME NEW e \in Events, CreateDeliveries(e) PROVE Recorded(d)' /\ Owed(d)' /\ Counted(d)'
  BY <1>2, Committed
<1>3. ASSUME NEW e \in Events, NEW p \in Endpoints, AddJob(e, p)
      PROVE  Recorded(d)' /\ Owed(d)' /\ Counted(d)'
  <2>1. <<e, p>> \in Deliveries /\ Goto(<<e, p>>, "waiting") /\ At(<<e, p>>, "absent")
    BY <1>3 DEF AddJob, Added, Goto, Deliveries, WebhookInv, NotQueuedYet
  <2>2. UNCHANGED <<rows, posts, accepted, faults>>
    BY <1>3 DEF AddJob, Added
  <2>3. CASE d = <<e, p>>
    <3>1. jobs'[d].pc = "waiting"
      BY <2>1, <2>3, GotoType DEF RestPcs
    <3>. QED
      BY <2>1, <2>2, <2>3, <3>1, SMT
      DEF WebhookInv, WebhookTypeOK, Row, Recorded, Owed, Counted, Unrecorded, At
  <2>4. CASE d # <<e, p>>
    <3>1. jobs'[d] = jobs[d]
      BY <2>1, <2>4, GotoType DEF RestPcs
    <3>. QED
      BY <2>2, <3>1, Untouched DEF WebhookInv
  <2>. QED
    BY <2>3, <2>4
<1>4. ASSUME NEW k \in Deliveries,
             DeliverStep(k) \/ PostLate(k) \/ RejectDeliver(k) \/ CrashWorker(k)
      PROVE  Recorded(d)' /\ Owed(d)' /\ Counted(d)'
  <2>1. CASE d = k
    BY <1>4, <2>1, Worked
  <2>2. CASE d # k
    BY <1>4, <2>2, Aside, Untouched DEF WebhookInv
  <2>. QED
    BY <2>1, <2>2
<1>5. CASE /\ UNCHANGED <<rows, jobs, posts, accepted>>
           /\ faults' = faults \/ faults' = faults + 1
  BY <1>5, Untouched DEF WebhookInv
<1>. QED
  BY <1>2, <1>3, <1>4, <1>5
  DEF WebhookNext, webhookVars, Register, Deactivate, EmitStep, FindEndpoints, CreateEvent,
      AbortEmit, RejectAdd, Added, Fault

\* The delivery it works on keeps its job.
LEMMA Kept ==
  ASSUME WebhookTypeOK, NEW d \in Deliveries,
         DeliverStep(d) \/ PostLate(d) \/ RejectDeliver(d) \/ CrashWorker(d)
  PROVE  ~At(d, "absent")'
<1>1. CASE Settle(d) \/ Recover(d)
  BY <1>1, SettleType DEF At
<1>2. ASSUME NEW pc \in (RestPcs \cup CallPcs) \ {"absent"}, Goto(d, pc)
      PROVE  ~At(d, "absent")'
  BY <1>2, GotoType DEF At
<1>3. CASE Take(d) \/ LoadDelivery(d)
  BY <1>2, <1>3 DEF Take, LoadDelivery, CallPcs
<1>4. CASE PostAccepted(d) \/ PostRefused(d) \/ PostLate(d)
  BY <1>2, <1>4 DEF PostAccepted, PostRefused, PostLate, CallPcs
<1>5. CASE WriteDelivered(d) \/ WriteFailed(d)
  BY <1>2, <1>5 DEF WriteDelivered, WriteFailed, CallPcs
<1>6. CASE RejectDeliver(d) \/ CrashWorker(d)
  BY <1>2, <1>6 DEF RejectDeliver, CrashWorker, CallPcs, RestPcs
<1>. QED
  BY <1>1, <1>3, <1>4, <1>5, <1>6 DEF DeliverStep

-----------------------------------------------------------------------------
(* Orphans.                                                                 *)

\* An emission has no targets before it begins; only FindEndpoints leaves idle.
LEMMA NextNotBegun == WebhookTypeOK /\ NotBegun /\ [WebhookNext]_webhookVars => NotBegun'
<1> SUFFICES ASSUME WebhookTypeOK, NotBegun, [WebhookNext]_webhookVars,
                    NEW e \in Events, emits'[e].pc = "idle"
             PROVE  emits'[e].targets = {}
  BY DEF NotBegun
<1>. emits \in [Events -> [pc : EmitPcs, targets : SUBSET Endpoints]]
  BY DEF WebhookTypeOK
<1>1. CASE UNCHANGED emits
  BY <1>1 DEF NotBegun
<1>2. ASSUME NEW f \in Events, FindEndpoints(f) PROVE emits'[e].targets = {}
  BY <1>2, SMT DEF FindEndpoints, NotBegun
<1>3. ASSUME NEW f \in Events, CreateEvent(f) \/ CreateDeliveries(f) PROVE emits'[e].targets = {}
  BY <1>3, SMT DEF CreateEvent, CreateDeliveries, NotBegun
<1>4. ASSUME NEW f \in Events, NEW q \in Endpoints, Added(f, q) PROVE emits'[e].targets = {}
  BY <1>4, SMT DEF Added, NotBegun
<1>5. ASSUME NEW f \in Events, AbortEmit(f) PROVE emits'[e].targets = {}
  BY <1>5, SMT DEF AbortEmit, NotBegun
<1>6. ASSUME NEW d \in Deliveries,
             DeliverStep(d) \/ PostLate(d) \/ RejectDeliver(d) \/ CrashWorker(d)
      PROVE  UNCHANGED emits
  BY <1>6, Aside
<1>. QED
  BY <1>1, <1>2, <1>3, <1>4, <1>5, <1>6
  DEF WebhookNext, webhookVars, Register, Deactivate, EmitStep, AddJob, RejectAdd

\* Nothing but a failure takes a committed delivery from its emission without a job.
LEMMA NextOrphans ==
  WebhookTypeOK /\ NotBegun /\ OrphansNeedFaults /\ [WebhookNext]_webhookVars
    => OrphansNeedFaults'
<1> SUFFICES ASSUME WebhookTypeOK, NotBegun, OrphansNeedFaults, [WebhookNext]_webhookVars,
                    NEW e \in Events, NEW p \in Endpoints,
                    rows'[<<e, p>>].status = "PENDING", At(<<e, p>>, "absent")'
             PROVE  p \in emits'[e].targets \/ faults' > 0
  BY DEF OrphansNeedFaults
<1>. /\ <<e, p>> \in Deliveries
     /\ emits \in [Events -> [pc : EmitPcs, targets : SUBSET Endpoints]]
     /\ faults \in Nat
  BY DEF WebhookTypeOK, Deliveries
<1>1. CASE UNCHANGED <<emits, rows, jobs, faults>>
  BY <1>1 DEF OrphansNeedFaults, At
<1>2. ASSUME faults' = faults + 1 PROVE faults' > 0
  BY <1>2, SMT
<1>3. ASSUME NEW f \in Events, FindEndpoints(f) PROVE p \in emits'[e].targets \/ faults' > 0
  <2>1. p \in emits[e].targets \/ faults > 0
    BY <1>3 DEF FindEndpoints, OrphansNeedFaults, At
  <2>2. CASE e = f
    BY <1>3, <2>1, <2>2 DEF FindEndpoints, NotBegun
  <2>3. CASE e # f
    <3>1. emits'[e] = emits[e] /\ faults' = faults
      BY <1>3, <2>3 DEF FindEndpoints
    <3>. QED
      BY <2>1, <3>1
  <2>. QED
    BY <2>2, <2>3
<1>4. ASSUME NEW f \in Events, CreateEvent(f) PROVE p \in emits'[e].targets \/ faults' > 0
  BY <1>4, SMT DEF CreateEvent, OrphansNeedFaults, At
<1>5. ASSUME NEW f \in Events, CreateDeliveries(f) PROVE p \in emits'[e].targets \/ faults' > 0
  <2>1. emits'[e].targets = emits[e].targets /\ UNCHANGED <<jobs, faults>>
    BY <1>5, SMT DEF CreateDeliveries
  <2>2. CASE e = f /\ p \in emits[f].targets
    BY <2>1, <2>2
  <2>3. CASE ~(e = f /\ p \in emits[f].targets)
    <3>1. rows'[<<e, p>>] = rows[<<e, p>>]
      BY <1>5, <2>3 DEF CreateDeliveries
    <3>. QED
      BY <2>1, <3>1 DEF OrphansNeedFaults, At
  <2>. QED
    BY <2>2, <2>3
<1>6. ASSUME NEW f \in Events, NEW q \in Endpoints, AddJob(f, q)
      PROVE  p \in emits'[e].targets \/ faults' > 0
  <2>1. /\ <<f, q>> \in Deliveries /\ Goto(<<f, q>>, "waiting")
        /\ UNCHANGED <<rows, faults>>
    BY <1>6 DEF AddJob, Added, Goto, Deliveries
  <2>2. <<e, p>> # <<f, q>>
    BY <2>1, GotoType, ZenonT(40) DEF RestPcs, At
  <2>3. jobs'[<<e, p>>] = jobs[<<e, p>>]
    BY <2>1, <2>2, GotoType DEF RestPcs
  <2>4. p \in emits[e].targets \/ faults > 0
    BY <2>1, <2>3 DEF OrphansNeedFaults, At
  <2>5. p \in emits[e].targets => p \in emits'[e].targets
    BY <1>6, <2>2, SMT DEF AddJob, Added
  <2>. QED
    BY <2>1, <2>4, <2>5
<1>7. ASSUME NEW d \in Deliveries,
             DeliverStep(d) \/ PostLate(d) \/ RejectDeliver(d) \/ CrashWorker(d)
      PROVE  p \in emits'[e].targets \/ faults' > 0
  <2>1. <<e, p>> # d
    BY <1>7, Kept
  <2>2. /\ rows'[<<e, p>>] = rows[<<e, p>>] /\ jobs'[<<e, p>>] = jobs[<<e, p>>]
        /\ UNCHANGED emits
        /\ faults' = faults \/ faults' = faults + 1
    BY <1>7, <2>1, Aside
  <2>. QED
    BY <1>2, <2>2 DEF OrphansNeedFaults, At
<1>. QED
  BY <1>1, <1>2, <1>3, <1>4, <1>5, <1>6, <1>7
  DEF WebhookNext, webhookVars, Register, Deactivate, EmitStep, AbortEmit, RejectAdd, Fault

\* A committed delivery without a job and without an emission took a failure, for any
\* number of events, endpoints and emissions at once.
THEOREM OrphansAreFaults == WebhookSafety => []OrphansNeedFaults
<1>1. WebhookInit => NotBegun /\ OrphansNeedFaults
  BY DEF WebhookInit, NotBegun, OrphansNeedFaults, Deliveries
<1>2. WebhookTypeOK /\ NotBegun /\ OrphansNeedFaults /\ [WebhookNext]_webhookVars
        => NotBegun' /\ OrphansNeedFaults'
  BY NextNotBegun, NextOrphans
<1>. QED
  BY <1>1, <1>2, DeliveriesTyped, PTL DEF WebhookSafety

-----------------------------------------------------------------------------
(* Deactivated endpoints.                                                   *)

\* No step disturbs a quiet delivery.
LEMMA NextQuiet ==
  ASSUME WebhookTypeOK, [WebhookNext]_webhookVars, NEW d \in Deliveries, Quiet(d)
  PROVE  Quiet(d)' /\ posts'[d] = posts[d]
<1>. /\ d[1] \in Events /\ d[2] \in Endpoints /\ d = <<d[1], d[2]>>
     /\ endpoints \in [Endpoints -> {"absent", "active", "inactive"}]
     /\ emits \in [Events -> [pc : EmitPcs, targets : SUBSET Endpoints]]
  BY DEF WebhookTypeOK, Deliveries
<1>1. CASE UNCHANGED webhookVars
  BY <1>1 DEF webhookVars, Quiet
<1>2. ASSUME NEW p \in Endpoints, Register(p) \/ Deactivate(p)
      PROVE  Quiet(d)' /\ posts'[d] = posts[d]
  BY <1>2 DEF Register, Deactivate, Quiet
<1>3. ASSUME NEW f \in Events, FindEndpoints(f) PROVE Quiet(d)' /\ posts'[d] = posts[d]
  <2>1. d[2] \notin emits'[d[1]].targets
    BY <1>3 DEF FindEndpoints, Quiet
  <2>. QED
    BY <1>3, <2>1 DEF FindEndpoints, Quiet
<1>4. ASSUME NEW f \in Events, CreateEvent(f) \/ CreateDeliveries(f) \/ AbortEmit(f)
      PROVE  Quiet(d)' /\ posts'[d] = posts[d]
  <2>1. d[2] \notin emits'[d[1]].targets
    BY <1>4, SMT DEF CreateEvent, CreateDeliveries, AbortEmit, Quiet
  <2>. QED
    BY <1>4, <2>1 DEF CreateEvent, CreateDeliveries, AbortEmit, Quiet
<1>5. ASSUME NEW f \in Events, NEW q \in Endpoints, AddJob(f, q) \/ RejectAdd(f, q)
      PROVE  Quiet(d)' /\ posts'[d] = posts[d]
  <2>1. <<f, q>> # d /\ UNCHANGED <<endpoints, posts>>
    BY <1>5 DEF AddJob, RejectAdd, Added, Quiet
  <2>2. d[2] \notin emits'[d[1]].targets
    BY <1>5, SMT DEF AddJob, RejectAdd, Added, Quiet
  <2>3. jobs'[d] = jobs[d]
    BY <1>5, <2>1 DEF AddJob, RejectAdd, WebhookTypeOK
  <2>. QED
    BY <2>1, <2>2, <2>3 DEF Quiet
<1>6. ASSUME NEW k \in Deliveries,
             DeliverStep(k) \/ PostLate(k) \/ RejectDeliver(k) \/ CrashWorker(k)
      PROVE  Quiet(d)' /\ posts'[d] = posts[d]
  <2>1. k # d
    BY <1>6
    DEF DeliverStep, Take, LoadDelivery, PostAccepted, PostRefused, PostLate, Posted, WriteDelivered,
        WriteFailed, Settle, Recover, RejectDeliver, CrashWorker, CallPcs, At, Quiet
  <2>2. jobs'[d] = jobs[d] /\ posts'[d] = posts[d] /\ UNCHANGED <<endpoints, emits>>
    BY <1>6, <2>1, Aside
  <2>. QED
    BY <2>2 DEF Quiet
<1>. QED
  BY <1>1, <1>2, <1>3, <1>4, <1>5, <1>6 DEF WebhookNext, EmitStep

\* Once what was under way has ended, nothing posts to a deactivated endpoint again.
THEOREM DeactivatedStaysQuiet == WebhookSafety => DeactivatedGoesQuiet
<1>1. WebhookTypeOK /\ [WebhookNext]_webhookVars
        => [\A d \in Deliveries : Quiet(d) => Quiet(d)' /\ posts'[d] = posts[d]]_webhookVars
  BY NextQuiet
<1>. QED
  BY <1>1, DeliveriesTyped, PTL DEF WebhookSafety, DeactivatedGoesQuiet

-----------------------------------------------------------------------------
(* The books.                                                               *)

\* The invariant of the outbox, for any number of events, endpoints, tries and failures.
LEMMA WebhookInvariant == WebhookSafety => [](WebhookTypeOK /\ WebhookInv)
<1>1. WebhookTypeOK /\ WebhookInv /\ [WebhookNext]_webhookVars => (WebhookTypeOK /\ WebhookInv)'
  BY NextTypeOK, NextWebhookInv
<1>. QED
  BY InitTypeOK, InitWebhookInv, <1>1, PTL DEF WebhookSafety

\* A completed job left DELIVERED, and DELIVERED means that the endpoint took the event.
THEOREM DeliveredWasTaken == WebhookSafety => []BooksAreTrue
<1>1. WebhookInv => BooksAreTrue
  BY DEF WebhookInv, Recorded, BooksAreTrue, At
<1>. QED
  BY WebhookInvariant, <1>1, PTL

\* An endpoint takes an event at most once more than there were failures.
THEOREM RepostsCounted == WebhookSafety => []RepostsNeedFaults
<1>1. WebhookInv => RepostsNeedFaults
  BY DEF WebhookInv, Owed, RepostsNeedFaults
<1>. QED
  BY WebhookInvariant, <1>1, PTL

\* attemptCount differs from the requests sent by at most the failures.
THEOREM AttemptsAccounted == WebhookSafety => []AttemptsCounted
<1>1. WebhookTypeOK /\ WebhookInv => AttemptsCounted
  BY SMT DEF WebhookInv, WebhookTypeOK, Row, Counted, Unrecorded, AttemptsCounted
<1>. QED
  BY WebhookInvariant, <1>1, PTL

-----------------------------------------------------------------------------
(* Denials.                                                                 *)

\* The endpoint took d, and nobody is on the way from there to a job that completed with
\* DELIVERED.
Spoiled(d) ==
  /\ accepted[d] > 0 /\ ~At(d, "writeDelivered")
  /\ ~(rows[d].status = "DELIVERED" /\ jobs[d].pc \in {"returned", "completed"})

SpoiledOnes == {d \in Deliveries : Spoiled(d)}
SpoiledInv == IsFiniteSet(SpoiledOnes) /\ Cardinality(SpoiledOnes) <= faults

\* A step of a job or its call spoils nothing: it records what it has sent.
LEMMA StepSpoilsNothing ==
  ASSUME WebhookTypeOK, WebhookInv, NEW d \in Deliveries, DeliverStep(d), Spoiled(d)'
  PROVE  Spoiled(d)
<1>1. CASE Settle(d) \/ Recover(d)
  <2>1. \/ At(d, "returned") /\ jobs'[d].pc = "completed"
        \/ jobs[d].pc \in {"threw", "stalled"} /\ jobs'[d].pc \in {"waiting", "failed"}
    BY <1>1, SettleType
  <2>2. UNCHANGED <<rows, accepted>>
    BY <1>1 DEF Settle, Recover
  <2>. QED
    BY <2>1, <2>2 DEF Spoiled, At, WebhookInv, Recorded
<1>2. CASE WriteDelivered(d)
  <2>1. rows'[d].status = "DELIVERED" /\ jobs'[d].pc = "returned"
    BY <1>2, RecordType, GotoType DEF WriteDelivered, CallPcs
  <2>. QED
    BY <2>1 DEF Spoiled, At
<1>3. CASE PostAccepted(d)
  <2>1. jobs'[d].pc = "writeDelivered"
    BY <1>3, GotoType DEF PostAccepted, CallPcs
  <2>. QED
    BY <2>1 DEF Spoiled, At
<1>4. CASE Take(d) \/ LoadDelivery(d) \/ PostRefused(d) \/ WriteFailed(d)
  <2>1. jobs[d].pc \in {"waiting", "load", "post", "writeFailed"} /\ accepted' = accepted
    BY <1>4 DEF Take, LoadDelivery, PostRefused, WriteFailed, Posted, Record, At
  <2>. QED
    BY <2>1 DEF Spoiled, At
<1>. QED
  BY <1>1, <1>2, <1>3, <1>4 DEF DeliverStep

\* Neither does an emission: a delivery that it commits or queues has no job yet.
LEMMA EmissionSpoilsNothing ==
  ASSUME WebhookTypeOK, WebhookInv, NEW e \in Events, EmitStep(e) \/ AbortEmit(e)
           \/ \E p \in Endpoints : RejectAdd(e, p),
         NEW d \in Deliveries, Spoiled(d)'
  PROVE  Spoiled(d)
<1>1. CASE CreateDeliveries(e)
  <2>1. jobs' = jobs /\ accepted' = accepted
    BY <1>1 DEF CreateDeliveries
  <2>2. CASE d[1] = e /\ d[2] \in emits[e].targets
    <3>1. At(d, "absent")
      BY <2>2 DEF WebhookInv, NotQueuedYet, Deliveries
    <3>. QED
      BY <2>1, <3>1 DEF Spoiled, At
  <2>3. CASE ~(d[1] = e /\ d[2] \in emits[e].targets)
    <3>1. rows'[d] = rows[d]
      BY <1>1, <2>3 DEF CreateDeliveries
    <3>. QED
      BY <2>1, <3>1 DEF Spoiled, At
  <2>. QED
    BY <2>2, <2>3
<1>2. ASSUME NEW p \in Endpoints, AddJob(e, p) PROVE Spoiled(d)
  <2>1. <<e, p>> \in Deliveries /\ Goto(<<e, p>>, "waiting") /\ At(<<e, p>>, "absent")
    BY <1>2 DEF AddJob, Added, Goto, Deliveries, WebhookInv, NotQueuedYet
  <2>2. rows' = rows /\ accepted' = accepted
    BY <1>2 DEF AddJob, Added
  <2>3. CASE d = <<e, p>>
    BY <2>1, <2>2, <2>3 DEF Spoiled, At
  <2>4. CASE d # <<e, p>>
    <3>1. jobs'[d] = jobs[d]
      BY <2>1, <2>4, GotoType DEF RestPcs
    <3>. QED
      BY <2>2, <3>1 DEF Spoiled, At
  <2>. QED
    BY <2>3, <2>4
<1>3. CASE UNCHANGED <<rows, jobs, accepted>>
  BY <1>3 DEF Spoiled, At
<1>. QED
  BY <1>1, <1>2, <1>3 DEF EmitStep, FindEndpoints, CreateEvent, AbortEmit, RejectAdd, Added

\* A failure spoils the delivery it befalls, and no other.
LEMMA NextSpoiled ==
  ASSUME WebhookTypeOK, WebhookInv, SpoiledInv, [WebhookNext]_webhookVars
  PROVE  SpoiledInv'
<1>t. faults \in Nat /\ IsFiniteSet(SpoiledOnes) /\ Cardinality(SpoiledOnes) \in Nat
      /\ Cardinality(SpoiledOnes) <= faults
  BY FS_CardinalityType DEF WebhookTypeOK, SpoiledInv
<1>1. ASSUME SpoiledOnes' \subseteq SpoiledOnes, faults' = faults \/ faults' = faults + 1
      PROVE  SpoiledInv'
  <2>1. /\ IsFiniteSet(SpoiledOnes') /\ Cardinality(SpoiledOnes') \in Nat
        /\ Cardinality(SpoiledOnes') <= Cardinality(SpoiledOnes)
    BY <1>1, <1>t, FS_Subset, FS_CardinalityType
  <2>2. Cardinality(SpoiledOnes') <= faults'
    BY <1>1, <1>t, <2>1, SMT
  <2>. QED
    BY <2>1, <2>2 DEF SpoiledInv
<1>2. ASSUME NEW d \in Deliveries, SpoiledOnes' \subseteq SpoiledOnes \cup {d}, faults' = faults + 1
      PROVE  SpoiledInv'
  <2>1. /\ IsFiniteSet(SpoiledOnes \cup {d})
        /\ Cardinality(SpoiledOnes \cup {d}) \in {Cardinality(SpoiledOnes), Cardinality(SpoiledOnes) + 1}
    BY <1>t, FS_AddElement, Zenon
  <2>2. /\ IsFiniteSet(SpoiledOnes') /\ Cardinality(SpoiledOnes') \in Nat
        /\ Cardinality(SpoiledOnes') <= Cardinality(SpoiledOnes \cup {d})
    BY <1>2, <2>1, FS_Subset, FS_CardinalityType
  <2>3. Cardinality(SpoiledOnes') <= faults'
    BY <1>2, <1>t, <2>1, <2>2, SMT
  <2>. QED
    BY <2>2, <2>3 DEF SpoiledInv
<1>3. ASSUME NEW d \in Deliveries,
             DeliverStep(d) \/ PostLate(d) \/ RejectDeliver(d) \/ CrashWorker(d),
             NEW k \in Deliveries, k # d, Spoiled(k)'
      PROVE  Spoiled(k)
  <2>1. rows'[k] = rows[k] /\ jobs'[k] = jobs[k] /\ accepted'[k] = accepted[k]
    BY <1>3, Aside
  <2>. QED
    BY <1>3, <2>1 DEF Spoiled, At
<1>4. ASSUME NEW d \in Deliveries, DeliverStep(d) PROVE SpoiledInv'
  <2>1. SpoiledOnes' \subseteq SpoiledOnes
    BY <1>3, <1>4, StepSpoilsNothing DEF SpoiledOnes
  <2>2. faults' = faults \/ faults' = faults + 1
    BY <1>4, Aside
  <2>. QED
    BY <1>1, <2>1, <2>2
<1>5. ASSUME NEW d \in Deliveries, PostLate(d) \/ RejectDeliver(d) \/ CrashWorker(d)
      PROVE  SpoiledInv'
  <2>1. SpoiledOnes' \subseteq SpoiledOnes \cup {d}
    BY <1>3, <1>5 DEF SpoiledOnes
  <2>2. faults' = faults + 1
    BY <1>5 DEF PostLate, RejectDeliver, CrashWorker, Fault
  <2>. QED
    BY <1>2, <2>1, <2>2
<1>6. ASSUME NEW e \in Events,
             EmitStep(e) \/ AbortEmit(e) \/ \E p \in Endpoints : RejectAdd(e, p)
      PROVE  SpoiledInv'
  <2>1. SpoiledOnes' \subseteq SpoiledOnes
    BY <1>6, EmissionSpoilsNothing DEF SpoiledOnes
  <2>2. faults' = faults \/ faults' = faults + 1
    BY <1>6 DEF EmitStep, FindEndpoints, CreateEvent, CreateDeliveries, AddJob, AbortEmit,
                RejectAdd, Fault
  <2>. QED
    BY <1>1, <2>1, <2>2
<1>7. CASE UNCHANGED <<rows, jobs, accepted, faults>>
  <2>1. SpoiledOnes' = SpoiledOnes
    BY <1>7 DEF SpoiledOnes, Spoiled, At
  <2>. QED
    BY <1>1, <1>7, <2>1
<1>. QED
  BY <1>4, <1>5, <1>6, <1>7 DEF WebhookNext, webhookVars, Register, Deactivate

LEMMA InitSpoiled == WebhookInit => SpoiledInv
<1> SUFFICES ASSUME WebhookInit PROVE SpoiledInv
  OBVIOUS
<1>1. SpoiledOnes = {} /\ faults = 0
  BY SMT DEF WebhookInit, SpoiledOnes, Spoiled
<1>. QED
  BY <1>1, FS_EmptySet, SMT DEF SpoiledInv

\* However many deliveries are under way, at most as many end with a row that denies what
\* the endpoint took as things failed.
THEOREM DenialsAreFailures == WebhookSafety => []DenialsNeedFaults
<1>1. WebhookTypeOK /\ SpoiledInv => DenialsNeedFaults
  <2> SUFFICES ASSUME WebhookTypeOK, SpoiledInv PROVE DenialsNeedFaults
    OBVIOUS
  <2>1. {d \in Deliveries : Denied(d)} \subseteq SpoiledOnes
    BY DEF SpoiledOnes, Spoiled, Denied, Over, At
  <2>2. /\ Cardinality({d \in Deliveries : Denied(d)}) <= Cardinality(SpoiledOnes)
        /\ Cardinality({d \in Deliveries : Denied(d)}) \in Nat
        /\ Cardinality(SpoiledOnes) \in Nat
    BY <2>1, FS_Subset, FS_CardinalityType DEF SpoiledInv
  <2>. QED
    BY <2>2, SMT DEF DenialsNeedFaults, SpoiledInv, WebhookTypeOK
<1>2. WebhookTypeOK /\ WebhookInv /\ SpoiledInv /\ [WebhookNext]_webhookVars => SpoiledInv'
  BY NextSpoiled
<1>. QED
  BY <1>1, <1>2, InitSpoiled, WebhookInvariant, PTL DEF WebhookSafety

-----------------------------------------------------------------------------
(* The outbox.                                                              *)

Boxed(d) == Budget(d) /\ OnceRecorded(d) /\ NoJob(d)

\* A move of a call leaves the counters of its job alone.
LEMMA GotoKeeps ==
  ASSUME WebhookTypeOK, NEW d \in Deliveries, NEW pc \in RestPcs \cup CallPcs, Goto(d, pc)
  PROVE  /\ jobs'[d].pc = pc
         /\ jobs'[d].tries = jobs[d].tries /\ jobs'[d].stalls = jobs[d].stalls
<1>1. jobs[d] \in Job /\ jobs'[d] = [jobs[d] EXCEPT !.pc = pc] /\ jobs'[d].pc = pc
  BY GotoType DEF WebhookTypeOK
<1>. QED
  BY <1>1, SMT DEF Job

\* What becomes of a job whose call has ended.
LEMMA SettleCounts ==
  ASSUME WebhookTypeOK, NEW d \in Deliveries, Settle(d) \/ Recover(d)
  PROVE  \/ At(d, "returned") /\ jobs'[d].pc = "completed"
         \/ /\ At(d, "threw")
            /\ jobs'[d].pc = IF jobs[d].tries + 1 < Attempts THEN "waiting" ELSE "failed"
            /\ jobs'[d].tries = jobs[d].tries + 1 /\ jobs'[d].stalls = jobs[d].stalls
         \/ At(d, "stalled") /\ jobs'[d].pc = "failed"
         \/ /\ At(d, "stalled") /\ jobs[d].stalls = 0 /\ jobs'[d].pc = "waiting"
            /\ jobs'[d].tries = jobs[d].tries /\ jobs'[d].stalls = 1
<1>. jobs \in [Deliveries -> Job] /\ jobs[d] \in Job
  BY DEF WebhookTypeOK
<1>1. ASSUME NEW pc \in {"completed", "failed"}, Goto(d, pc) PROVE jobs'[d].pc = pc
  BY <1>1, GotoType DEF RestPcs
<1>2. CASE Settle(d)
  <2>1. CASE At(d, "returned") /\ Goto(d, "completed")
    BY <1>1, <2>1
  <2>2. CASE At(d, "threw") /\ jobs' = [jobs EXCEPT ![d] =
               [@ EXCEPT !.pc = IF jobs[d].tries + 1 < Attempts THEN "waiting" ELSE "failed",
                         !.tries = jobs[d].tries + 1]]
    <3>1. jobs'[d] = [jobs[d] EXCEPT
                        !.pc = IF jobs[d].tries + 1 < Attempts THEN "waiting" ELSE "failed",
                        !.tries = jobs[d].tries + 1]
      BY <2>2
    <3>. QED
      BY <2>2, <3>1, SMT DEF Job
  <2>. QED
    BY <1>2, <2>1, <2>2 DEF Settle
<1>3. CASE Recover(d)
  <2>1. CASE Goto(d, "failed")
    BY <1>1, <1>3, <2>1 DEF Recover
  <2>2. CASE /\ jobs[d].stalls = 0
             /\ jobs' = [jobs EXCEPT ![d] = [@ EXCEPT !.pc = "waiting", !.stalls = 1]]
    <3>1. jobs'[d] = [jobs[d] EXCEPT !.pc = "waiting", !.stalls = 1]
      BY <2>2
    <3>. QED
      BY <1>3, <2>2, <3>1, SMT DEF Job, Recover
  <2>. QED
    BY <1>3, <2>1, <2>2 DEF Recover
<1>. QED
  BY <1>2, <1>3

\* What has not changed stays within its budget, and failures only give it room.
LEMMA UntouchedBox ==
  ASSUME WebhookTypeOK, NEW d \in Deliveries, Boxed(d),
         rows'[d].status = rows[d].status, jobs'[d] = jobs[d], posts'[d] = posts[d],
         faults' = faults \/ faults' = faults + 1
  PROVE  Boxed(d)'
<1>. faults \in Nat
  BY DEF WebhookTypeOK
<1>1. faults' = 0 => faults = 0
  BY SMT
<1>2. faults > 0 => faults' > 0
  BY SMT
<1>. QED
  BY <1>1, <1>2 DEF Boxed, Budget, OnceRecorded, NoJob, At

\* A step of the job or the call of d keeps to the budget of d.
LEMMA WorkedBox ==
  ASSUME WebhookTypeOK, NEW d \in Deliveries, Boxed(d),
         DeliverStep(d) \/ PostLate(d) \/ RejectDeliver(d) \/ CrashWorker(d)
  PROVE  Boxed(d)'
<1>. /\ jobs[d].tries \in Nat /\ jobs[d].stalls \in Nat /\ posts[d] \in Nat /\ faults \in Nat
     /\ posts \in [Deliveries -> Nat] /\ Attempts \in Nat \ {0}
  BY WebhookAssumption DEF WebhookTypeOK, Job
<1>n. ~At(d, "absent") /\ rows[d].status # "NONE"
  BY Aside DEF Boxed, NoJob
<1>k. ~At(d, "absent")'
  BY Kept
<1>. USE DEF Boxed, Budget, OnceRecorded, NoJob, At
<1>1. CASE Settle(d) \/ Recover(d)
  <2>1. UNCHANGED <<rows, posts, faults>>
    BY <1>1 DEF Settle, Recover
  <2>. QED
    BY <1>1, <1>n, <1>k, <2>1, SettleCounts, SMT
<1>2. CASE WriteDelivered(d)
  <2>1. rows'[d].status = "DELIVERED" /\ UNCHANGED <<posts, faults>>
    BY <1>2, RecordType DEF WriteDelivered, Record
  <2>2. /\ jobs'[d].pc = "returned"
        /\ jobs'[d].tries = jobs[d].tries /\ jobs'[d].stalls = jobs[d].stalls
    BY <1>2, GotoKeeps DEF WriteDelivered, CallPcs
  <2>. QED
    BY <1>2, <2>1, <2>2, SMT DEF WriteDelivered
<1>3. CASE WriteFailed(d)
  <2>1. rows'[d].status = "FAILED" /\ UNCHANGED <<posts, faults>>
    BY <1>3, RecordType DEF WriteFailed, Record
  <2>2. /\ jobs'[d].pc = "threw"
        /\ jobs'[d].tries = jobs[d].tries /\ jobs'[d].stalls = jobs[d].stalls
    BY <1>3, GotoKeeps DEF WriteFailed, CallPcs
  <2>. QED
    BY <1>3, <2>1, <2>2, SMT DEF WriteFailed
<1>4. CASE Take(d) \/ LoadDelivery(d)
  <2>1. /\ \/ At(d, "waiting") /\ jobs'[d].pc = "load"
           \/ At(d, "load") /\ jobs'[d].pc = "post"
        /\ jobs'[d].tries = jobs[d].tries /\ jobs'[d].stalls = jobs[d].stalls
    BY <1>4, GotoKeeps DEF Take, LoadDelivery, CallPcs
  <2>. QED
    BY <1>4, <1>n, <2>1, SMT DEF Take, LoadDelivery
<1>5. CASE PostAccepted(d) \/ PostRefused(d) \/ PostLate(d)
  <2>1. /\ jobs'[d].pc \in {"writeDelivered", "writeFailed"} /\ At(d, "post")
        /\ jobs'[d].tries = jobs[d].tries /\ jobs'[d].stalls = jobs[d].stalls
    BY <1>5, GotoKeeps DEF PostAccepted, PostRefused, PostLate, Posted, CallPcs
  <2>2. /\ posts'[d] = posts[d] + 1 /\ UNCHANGED rows
        /\ faults' = faults \/ faults' = faults + 1
    BY <1>5 DEF PostAccepted, PostRefused, PostLate, Posted, Fault
  <2>. QED
    BY <1>n, <2>1, <2>2, SMT
<1>6. CASE RejectDeliver(d) \/ CrashWorker(d)
  <2>1. /\ jobs'[d].pc \in {"threw", "writeFailed", "stalled"}
        /\ jobs'[d].tries = jobs[d].tries /\ jobs'[d].stalls = jobs[d].stalls
    BY <1>6, GotoKeeps DEF RejectDeliver, CrashWorker, CallPcs, RestPcs
  <2>2. faults' = faults + 1 /\ UNCHANGED <<rows, posts>> /\ jobs[d].pc \in CallPcs
    BY <1>6 DEF RejectDeliver, CrashWorker, Fault, CallPcs
  <2>3. jobs[d].pc \notin {"completed", "failed"}
    BY <2>2 DEF CallPcs
  <2>. QED
    BY <1>n, <2>1, <2>2, <2>3, SMT
<1>. QED
  BY <1>1, <1>2, <1>3, <1>4, <1>5, <1>6 DEF DeliverStep

\* An emission begins with those who listen, or ends at once.
LEMMA FoundOnes ==
  ASSUME WebhookTypeOK, NEW f \in Events, FindEndpoints(f)
  PROVE  /\ emits'[f].targets = {p \in Endpoints : endpoints[p] = "active" /\ <<f, p>> \in Listens}
         /\ emits'[f].pc = "event" \/ emits'[f].targets = {}
         /\ \A e \in Events \ {f} : emits'[e] = emits[e]
<1> DEFINE found == {p \in Endpoints : endpoints[p] = "active" /\ <<f, p>> \in Listens}
           pc == IF found = {} THEN "done" ELSE "event"
<1>1. emits' = [emits EXCEPT ![f] = [pc |-> pc, targets |-> found]]
  BY DEF FindEndpoints
<1>2. pc = "event" \/ found = {}
  OBVIOUS
<1> HIDE DEF pc
<1>3. emits'[f].pc = pc /\ emits'[f].targets = found
  BY <1>1 DEF WebhookTypeOK
<1>4. \A e \in Events \ {f} : emits'[e] = emits[e]
  BY <1>1 DEF WebhookTypeOK
<1>. QED
  BY <1>2, <1>3, <1>4

\* What an emission has still to do, before and after a step of another kind.
LEMMA NextCommitted ==
  WebhookTypeOK /\ WebhookInv /\ NotBegun /\ OutboxInv /\ [WebhookNext]_webhookVars => CommittedOnce'
<1> SUFFICES ASSUME WebhookTypeOK, WebhookInv, NotBegun, OutboxInv, [WebhookNext]_webhookVars,
                    NEW e \in Events, NEW p \in Endpoints
             PROVE  IF emits'[e].pc \in {"idle", "event", "rows"}
                    THEN rows'[<<e, p>>].status = "NONE"
                    ELSE rows'[<<e, p>>].status = "NONE" => p \notin emits'[e].targets
  BY DEF CommittedOnce
<1> DEFINE d == <<e, p>>
           Goal == IF emits'[e].pc \in {"idle", "event", "rows"}
                   THEN rows'[d].status = "NONE"
                   ELSE rows'[d].status = "NONE" => p \notin emits'[e].targets
<1>0. /\ d \in Deliveries /\ d[1] = e /\ d[2] = p
      /\ emits \in [Events -> [pc : EmitPcs, targets : SUBSET Endpoints]]
      /\ rows \in [Deliveries -> Row]
      /\ IF emits[e].pc \in {"idle", "event", "rows"}
         THEN rows[d].status = "NONE"
         ELSE rows[d].status = "NONE" => p \notin emits[e].targets
  BY DEF WebhookTypeOK, Deliveries, OutboxInv, CommittedOnce
<1> SUFFICES Goal
  OBVIOUS
<1> HIDE DEF d
<1>1. CASE UNCHANGED <<emits, rows>>
  BY <1>0, <1>1
<1>2. ASSUME NEW f \in Events, FindEndpoints(f) \/ CreateEvent(f) PROVE Goal
  <2>1. UNCHANGED rows /\ emits[f].pc \in {"idle", "event"}
    BY <1>2 DEF FindEndpoints, CreateEvent
  <2>2. CASE f # e
    <3>1. emits'[e] = emits[e]
      <4>1. CASE FindEndpoints(f)
        BY <2>2, <4>1, FoundOnes
      <4>2. CASE CreateEvent(f)
        BY <2>2, <4>2 DEF CreateEvent
      <4>. QED
        BY <1>2, <4>1, <4>2
    <3>. QED
      BY <1>0, <2>1, <3>1
  <2>3. CASE f = e
    <3>1. rows'[d].status = "NONE"
      BY <1>0, <2>1, <2>3
    <3>2. CASE FindEndpoints(f)
      BY <2>3, <3>1, <3>2, FoundOnes
    <3>3. CASE CreateEvent(f)
      <4>1. emits'[e].pc = "rows"
        BY <1>0, <2>3, <3>3 DEF CreateEvent
      <4>. QED
        BY <3>1, <4>1
    <3>. QED
      BY <1>2, <3>2, <3>3
  <2>. QED
    BY <2>2, <2>3
<1>3. ASSUME NEW f \in Events, CreateDeliveries(f) PROVE Goal
  <2>1. CASE f # e
    <3>1. emits'[e] = emits[e] /\ rows'[d] = rows[d]
      BY <1>0, <1>3, <2>1 DEF CreateDeliveries
    <3>. QED
      BY <1>0, <3>1
  <2>2. CASE f = e
    <3>1. emits'[e].pc = "add" /\ emits'[e].targets = emits[e].targets
      BY <1>0, <1>3, <2>2, SMT DEF CreateDeliveries
    <3>2. p \in emits[e].targets => rows'[d].status = "PENDING"
      BY <1>0, <1>3, <2>2, SMT DEF CreateDeliveries, Row
    <3>. QED
      BY <3>1, <3>2
  <2>. QED
    BY <2>1, <2>2
<1>4. ASSUME NEW f \in Events, NEW q \in Endpoints, Added(f, q) PROVE Goal
  <2>1. UNCHANGED rows /\ emits[f].pc = "add"
    BY <1>4 DEF Added
  <2>2. CASE f # e
    <3>1. emits'[e] = emits[e]
      BY <1>4, <2>2 DEF Added
    <3>. QED
      BY <1>0, <2>1, <3>1
  <2>3. CASE f = e
    <3>1. /\ emits'[e].pc \in {"done", "add"}
          /\ emits'[e].targets = emits[e].targets \ {q}
      BY <1>0, <1>4, <2>3, SMT DEF Added
    <3>. QED
      BY <1>0, <2>1, <2>3, <3>1
  <2>. QED
    BY <2>2, <2>3
<1>5. ASSUME NEW f \in Events, AbortEmit(f) PROVE Goal
  <2>1. UNCHANGED rows /\ emits' = [emits EXCEPT ![f] = [pc |-> "done", targets |-> {}]]
    BY <1>5 DEF AbortEmit
  <2>2. emits'[e] = emits[e] \/ emits'[e] = [pc |-> "done", targets |-> {}]
    BY <1>0, <2>1
  <2>. QED
    BY <1>0, <2>1, <2>2
<1>6. ASSUME NEW k \in Deliveries,
             DeliverStep(k) \/ PostLate(k) \/ RejectDeliver(k) \/ CrashWorker(k)
      PROVE  Goal
  <2>1. UNCHANGED emits
    BY <1>6, Aside
  <2>2. CASE k # d
    BY <1>0, <1>6, <2>1, <2>2, Aside
  <2>3. CASE k = d
    <3>1. rows[d].status # "NONE"
      BY <1>0, <1>6, <2>3, Aside DEF OutboxInv, NoJob
    <3>2. rows'[d].status # "NONE"
      <4>1. CASE WriteDelivered(k) \/ WriteFailed(k)
        BY <2>3, <4>1, RecordType DEF WriteDelivered, WriteFailed
      <4>2. CASE UNCHANGED rows
        BY <3>1, <4>2
      <4>. QED
        BY <1>6, <4>1, <4>2
        DEF DeliverStep, Take, LoadDelivery, PostAccepted, PostRefused, PostLate, Settle, Recover,
            RejectDeliver, CrashWorker
    <3>. QED
      BY <1>0, <2>1, <3>1, <3>2
  <2>. QED
    BY <2>2, <2>3
<1>. QED
  BY <1>1, <1>2, <1>3, <1>4, <1>5, <1>6
  DEF WebhookNext, webhookVars, Register, Deactivate, EmitStep, AddJob, RejectAdd

\* A delivery stays within its budget while it is committed and queued.
LEMMA NextBoxed ==
  ASSUME WebhookTypeOK, WebhookInv, OutboxInv, [WebhookNext]_webhookVars, NEW d \in Deliveries
  PROVE  Boxed(d)'
<1>0. Boxed(d) /\ rows[d] \in Row /\ faults \in Nat
  BY DEF OutboxInv, Boxed, WebhookTypeOK
<1>1. ASSUME NEW k \in Deliveries,
             DeliverStep(k) \/ PostLate(k) \/ RejectDeliver(k) \/ CrashWorker(k)
      PROVE  Boxed(d)'
  <2>1. CASE k = d
    BY <1>0, <1>1, <2>1, WorkedBox
  <2>2. CASE k # d
    BY <1>0, <1>1, <2>2, Aside, UntouchedBox
  <2>. QED
    BY <2>1, <2>2
<1>2. CASE /\ UNCHANGED <<rows, jobs, posts>>
           /\ faults' = faults \/ faults' = faults + 1
  BY <1>0, <1>2, UntouchedBox
<1>3. ASSUME NEW e \in Events, CreateDeliveries(e) PROVE Boxed(d)'
  <2>1. /\ UNCHANGED <<jobs, posts, faults>>
        /\ \/ rows'[d] = rows[d]
           \/ rows'[d].status = "PENDING" /\ d[1] = e /\ d[2] \in emits[e].targets
    BY <1>0, <1>3, SMT DEF CreateDeliveries, Row, WebhookTypeOK
  <2>. QED
    BY <1>0, <2>1 DEF Boxed, Budget, OnceRecorded, NoJob, At
<1>4. ASSUME NEW e \in Events, NEW p \in Endpoints, AddJob(e, p) PROVE Boxed(d)'
  <2>1. /\ <<e, p>> \in Deliveries /\ Goto(<<e, p>>, "waiting") /\ At(<<e, p>>, "absent")
        /\ UNCHANGED <<rows, posts, faults>> /\ emits[e].pc = "add" /\ p \in emits[e].targets
    BY <1>4 DEF AddJob, Added, Goto, Deliveries, WebhookInv, NotQueuedYet
  <2>2. CASE d # <<e, p>>
    <3>1. jobs'[d] = jobs[d]
      BY <2>1, <2>2, GotoType DEF RestPcs
    <3>. QED
      BY <1>0, <2>1, <3>1, UntouchedBox
  <2>3. CASE d = <<e, p>>
    <3>1. /\ jobs'[d].pc = "waiting"
          /\ jobs'[d].tries = jobs[d].tries /\ jobs'[d].stalls = jobs[d].stalls
      BY <2>1, <2>3, GotoKeeps DEF RestPcs
    <3>2. rows[d].status # "NONE"
      BY <2>1, <2>3 DEF OutboxInv, CommittedOnce
    <3>3. jobs[d].tries = 0 /\ jobs[d].stalls = 0 /\ posts[d] = 0
      BY <1>0, <2>1, <2>3 DEF Boxed, NoJob
    <3>4. 0 < Attempts
      BY WebhookAssumption
    <3>. QED
      BY <1>0, <2>1, <2>3, <3>1, <3>2, <3>3, <3>4, SMT DEF Boxed, Budget, OnceRecorded, NoJob, At
  <2>. QED
    BY <2>2, <2>3
<1>. QED
  BY <1>1, <1>2, <1>3, <1>4
  DEF WebhookNext, webhookVars, Register, Deactivate, EmitStep, FindEndpoints, CreateEvent,
      AbortEmit, RejectAdd, Added, Fault

LEMMA InitOutboxInv == WebhookInit => NotBegun /\ OutboxInv
<1> SUFFICES ASSUME WebhookInit PROVE NotBegun /\ OutboxInv
  OBVIOUS
<1>1. NotBegun /\ CommittedOnce
  BY DEF WebhookInit, NotBegun, CommittedOnce, Deliveries
<1>2. ASSUME NEW d \in Deliveries PROVE Budget(d) /\ OnceRecorded(d) /\ NoJob(d)
  <2>1. /\ jobs[d].pc = "absent" /\ jobs[d].tries = 0 /\ jobs[d].stalls = 0
        /\ posts[d] = 0 /\ rows[d].status = "NONE"
    BY DEF WebhookInit
  <2>2. 0 < Attempts
    BY WebhookAssumption
  <2>. QED
    BY <2>1, <2>2, SMT DEF Budget, OnceRecorded, NoJob, At
<1>. QED
  BY <1>1, <1>2 DEF OutboxInv

\* The inductive invariant of the refinement.
LEMMA OutboxInvariant ==
  WebhookSafety => [](WebhookTypeOK /\ WebhookInv /\ NotBegun /\ OutboxInv)
<1>1. NotBegun /\ OutboxInv /\ WebhookTypeOK /\ WebhookInv /\ [WebhookNext]_webhookVars
        => (NotBegun /\ OutboxInv)'
  BY NextNotBegun, NextCommitted, NextBoxed DEF OutboxInv, Boxed
<1>. QED
  BY WebhookInvariant, InitOutboxInv, <1>1, PTL DEF WebhookSafety

\* The step of the abstract outbox behind each step of the code.
phase == [d \in Deliveries |-> Phase(d)]
told == [d \in Deliveries |-> rows[d].status = "DELIVERED"]

\* The phase of a delivery with a row, before and after.
LEMMA PhaseAside ==
  ASSUME NEW d \in Deliveries, UNCHANGED emits,
         \A k \in Deliveries \ {d} : rows'[k] = rows[k] /\ jobs'[k] = jobs[k]
  PROVE  /\ phase' = [phase EXCEPT ![d] = Phase(d)']
         /\ told' = [told EXCEPT ![d] = (rows'[d].status = "DELIVERED")]
<1>1. \A k \in Deliveries \ {d} : Phase(k)' = Phase(k)
  BY DEF Phase, Over, At
<1>. QED
  BY <1>1 DEF phase, told

\* Where only the emissions move, and no one is served less, nobody's phase changes.
LEMMA PhaseSame ==
  ASSUME \A d \in Deliveries : Phase(d)' = Phase(d), UNCHANGED rows
  PROVE  UNCHANGED <<phase, told>>
BY DEF phase, told

LEMMA OutboxStutters ==
  ASSUME UNCHANGED <<endpoints, phase, posts, accepted, told, faults>>
  PROVE  UNCHANGED Outbox!outboxVars
BY DEF Outbox!outboxVars, phase, told

LEMMA SameDeliveries == Outbox!Deliveries = Deliveries
BY DEF Outbox!Deliveries, Deliveries

\* A step of the job or the call of d is a request, a note, the end, a mishap or nothing.
LEMMA WorkedSteps ==
  ASSUME WebhookTypeOK, WebhookInv, OutboxInv, NEW d \in Deliveries,
         DeliverStep(d) \/ PostLate(d) \/ RejectDeliver(d) \/ CrashWorker(d)
  PROVE  [Outbox!Next]_(Outbox!outboxVars)
<1> USE SameDeliveries
<1>0. /\ UNCHANGED <<endpoints, emits>> /\ ~At(d, "absent") /\ ~At(d, "absent")'
      /\ rows[d].status # "NONE"
      /\ phase' = [phase EXCEPT ![d] = Phase(d)']
      /\ told' = [told EXCEPT ![d] = (rows'[d].status = "DELIVERED")]
  BY Aside, Kept, PhaseAside DEF OutboxInv, NoJob
<1>1. /\ Recorded(d) /\ Owed(d) /\ Budget(d) /\ OnceRecorded(d)
      /\ posts[d] \in Nat /\ accepted[d] \in Nat /\ faults \in Nat /\ jobs[d] \in Job
      /\ Attempts \in Nat \ {0}
  BY WebhookAssumption DEF WebhookInv, OutboxInv, WebhookTypeOK
<1>2. Phase(d) = IF jobs[d].pc \in {"completed", "failed"} THEN "over" ELSE "open"
  BY <1>0 DEF Phase, Over
<1>3. phase[d] = Phase(d) /\ told[d] = (rows[d].status = "DELIVERED")
  BY DEF phase, told
<1>4. ASSUME rows'[d].status # "NONE"
      PROVE  Phase(d)' = IF jobs'[d].pc \in {"completed", "failed"} THEN "over" ELSE "open"
  BY <1>0, <1>4 DEF Phase, Over
<1>5. phase = [phase EXCEPT ![d] = Phase(d)] /\ told = [told EXCEPT ![d] = @]
  BY <1>3 DEF phase, told
<1>6. CASE Take(d) \/ LoadDelivery(d)
  <2>1. jobs'[d].pc \in {"load", "post"} /\ jobs[d].pc \in {"waiting", "load"}
    BY <1>6, GotoType DEF Take, LoadDelivery, CallPcs, At
  <2>2. UNCHANGED <<rows, posts, accepted, faults>>
    BY <1>6 DEF Take, LoadDelivery
  <2>3. Phase(d)' = Phase(d)
    BY <1>0, <1>2, <1>4, <2>1, <2>2
  <2>4. UNCHANGED <<phase, told>>
    BY <1>0, <1>5, <2>2, <2>3 DEF told
  <2>. QED
    BY <1>0, <2>2, <2>4, OutboxStutters
<1>7. CASE PostAccepted(d) \/ PostRefused(d) \/ PostLate(d)
  <2>1. jobs'[d].pc \in {"writeDelivered", "writeFailed"} /\ jobs[d].pc = "post"
    BY <1>7, GotoType DEF PostAccepted, PostRefused, PostLate, Posted, CallPcs, At
  <2>2. /\ UNCHANGED rows /\ posts' = [posts EXCEPT ![d] = @ + 1]
        /\ \/ UNCHANGED <<accepted, faults>>
           \/ /\ accepted' = [accepted EXCEPT ![d] = @ + 1]
              /\ faults' = faults \/ faults' = faults + 1
    BY <1>7 DEF PostAccepted, PostRefused, PostLate, Posted, Fault
  <2>3. UNCHANGED <<phase, told>> /\ phase[d] = "open"
    <3>1. Phase(d)' = Phase(d) /\ Phase(d) = "open"
      BY <1>0, <1>2, <1>4, <2>1, <2>2
    <3>. QED
      BY <1>0, <1>3, <1>5, <2>2, <3>1 DEF told
  <2>4. posts[d] <= Attempts /\ accepted[d] <= faults'
    BY <1>1, <2>1, <2>2, SMT DEF Budget, Owed, Job
  <2>5. Outbox!Send(d)
    BY <1>0, <2>2, <2>3, <2>4 DEF Outbox!Send, phase, told
  <2>. QED
    BY <2>5 DEF Outbox!Next
<1>8. CASE WriteDelivered(d) \/ WriteFailed(d)
  <2>1. jobs'[d].pc \in {"returned", "threw"} /\ UNCHANGED <<posts, accepted, faults>>
    BY <1>8, GotoType DEF WriteDelivered, WriteFailed, Record, CallPcs
  <2>2. \/ At(d, "writeDelivered") /\ rows'[d].status = "DELIVERED"
        \/ At(d, "writeFailed") /\ rows'[d].status = "FAILED"
    BY <1>8, RecordType DEF WriteDelivered, WriteFailed
  <2>3. UNCHANGED phase /\ phase[d] = "open"
    <3>1. Phase(d)' = Phase(d) /\ Phase(d) = "open"
      BY <1>0, <1>2, <1>4, <2>1, <2>2 DEF At
    <3>. QED
      BY <1>0, <1>3, <1>5, <3>1
  <2>4. \/ accepted[d] > 0 /\ told' = [told EXCEPT ![d] = TRUE]
        \/ (told[d] => faults > 0) /\ told' = [told EXCEPT ![d] = FALSE]
    <3>1. CASE At(d, "writeDelivered") /\ rows'[d].status = "DELIVERED"
      <4>1. (rows'[d].status = "DELIVERED") = TRUE
        BY <3>1
      <4>. QED
        BY <1>0, <1>1, <3>1, <4>1 DEF Recorded
    <3>2. CASE At(d, "writeFailed") /\ rows'[d].status = "FAILED"
      <4>1. (rows'[d].status = "DELIVERED") = FALSE
        BY <3>2
      <4>. QED
        BY <1>0, <1>1, <1>3, <3>2, <4>1 DEF OnceRecorded, At
    <3>. QED
      BY <2>2, <3>1, <3>2
  <2>5. Outbox!Note(d)
    BY <1>0, <2>1, <2>3, <2>4 DEF Outbox!Note, phase, told
  <2>. QED
    BY <2>5 DEF Outbox!Next
<1>9. CASE Settle(d) \/ Recover(d)
  <2>1. UNCHANGED <<rows, posts, accepted, faults>>
    BY <1>9 DEF Settle, Recover
  <2>2. UNCHANGED told
    BY <2>1 DEF told
  <2>3. CASE jobs'[d].pc \in {"completed", "failed"}
    <3>1. Phase(d)' = "over" /\ Phase(d) = "open"
      BY <1>0, <1>2, <1>4, <1>9, <2>1, <2>3, SettleType DEF At
    <3>2. phase' = [phase EXCEPT ![d] = "over"] /\ phase[d] = "open"
      BY <1>0, <1>3, <3>1
    <3>3. told[d] \/ posts[d] >= Attempts \/ faults > 0
      <4>1. CASE At(d, "returned")
        BY <1>1, <1>3, <4>1 DEF Recorded, At
      <4>2. CASE At(d, "threw") \/ At(d, "stalled")
        BY <1>1, <1>9, <2>3, <4>2, SettleCounts, SMT DEF Budget, At, Job
      <4>. QED
        BY <1>9, <4>1, <4>2, SettleCounts
    <3>4. Outbox!End(d)
      BY <1>0, <2>1, <2>2, <3>2, <3>3 DEF Outbox!End, phase, told
    <3>. QED
      BY <3>4 DEF Outbox!Next
  <2>4. CASE jobs'[d].pc \notin {"completed", "failed"}
    <3>1. Phase(d)' = Phase(d)
      BY <1>0, <1>2, <1>4, <1>9, <2>1, <2>4, SettleType DEF At
    <3>2. UNCHANGED phase
      BY <1>0, <1>5, <3>1
    <3>. QED
      BY <1>0, <2>1, <2>2, <3>2, OutboxStutters
  <2>. QED
    BY <2>3, <2>4
<1>10. CASE RejectDeliver(d) \/ CrashWorker(d)
  <2>1. /\ faults' = faults + 1 /\ UNCHANGED <<rows, posts, accepted>> /\ jobs[d].pc \in CallPcs
    BY <1>10 DEF RejectDeliver, CrashWorker, Fault, CallPcs, At
  <2>2. jobs'[d].pc \in {"threw", "writeFailed", "stalled"}
    BY <1>10, GotoType DEF RejectDeliver, CrashWorker, CallPcs, RestPcs
  <2>3. UNCHANGED <<phase, told>>
    <3>1. Phase(d)' = Phase(d)
      BY <1>0, <1>2, <1>4, <2>1, <2>2 DEF CallPcs
    <3>. QED
      BY <1>0, <1>5, <2>1, <3>1 DEF told
  <2>4. Outbox!Mishap
    BY <1>0, <2>1, <2>3 DEF Outbox!Mishap, phase, told
  <2>. QED
    BY <2>4 DEF Outbox!Next
<1>. QED
  BY <1>6, <1>7, <1>8, <1>9, <1>10 DEF DeliverStep

\* A step of an emission, or of an endpoint's owner, is one of the abstract outbox.
LEMMA EmissionSteps ==
  ASSUME WebhookTypeOK, WebhookInv, NotBegun, OutboxInv, NEW e \in Events,
         \/ EmitStep(e) \/ AbortEmit(e) \/ \E p \in Endpoints : RejectAdd(e, p)
  PROVE  [Outbox!Next]_(Outbox!outboxVars)
<1> USE SameDeliveries
<1>0. /\ emits \in [Events -> [pc : EmitPcs, targets : SUBSET Endpoints]]
      /\ rows \in [Deliveries -> Row] /\ jobs \in [Deliveries -> Job]
      /\ \A d \in Deliveries : d[1] \in Events /\ d[2] \in Endpoints /\ d = <<d[1], d[2]>>
      /\ \A p \in Endpoints : <<e, p>> \in Deliveries
  BY DEF WebhookTypeOK, Deliveries
<1>1. \A d \in Deliveries : phase[d] = Phase(d)
  BY DEF phase
<1>s. ASSUME \A d \in Deliveries : Phase(d)' = Phase(d),
             UNCHANGED <<endpoints, rows, posts, accepted, faults>>
      PROVE  UNCHANGED Outbox!outboxVars
  BY <1>s, PhaseSame, OutboxStutters
<1>2. CASE FindEndpoints(e)
  <2>1. UNCHANGED <<endpoints, rows, jobs, posts, accepted, faults>> /\ emits[e].pc = "idle"
    BY <1>2 DEF FindEndpoints
  <2>2. \A p \in Endpoints : rows[<<e, p>>].status = "NONE" /\ p \notin emits[e].targets
    BY <2>1 DEF OutboxInv, CommittedOnce, NotBegun
  <2>3. \A p \in Endpoints : phase[<<e, p>>] = "none"
    BY <1>0, <1>1, <2>2 DEF Phase
  <2>4. ASSUME NEW d \in Deliveries
        PROVE  Phase(d)' = IF d[1] = e /\ d \in Listens /\ endpoints[d[2]] = "active"
                           THEN "addressed" ELSE phase[d]
    <3>1. CASE d[1] # e
      <4>1. emits'[d[1]] = emits[d[1]]
        BY <1>0, <1>2, <3>1, FoundOnes
      <4>. QED
        BY <1>1, <2>1, <3>1, <4>1 DEF Phase, Over, At
    <3>2. CASE d[1] = e
      <4>1. d[2] \in emits'[e].targets <=> endpoints[d[2]] = "active" /\ d \in Listens
        BY <1>0, <1>2, <3>2, FoundOnes
      <4>2. rows'[d].status = "NONE" /\ phase[d] = "none"
        BY <1>0, <2>1, <2>2, <2>3, <3>2
      <4>. QED
        BY <3>2, <4>1, <4>2 DEF Phase
    <3>. QED
      BY <3>1, <3>2
  <2>5. phase' = [d \in Deliveries |->
           IF d[1] = e /\ d \in Listens /\ endpoints[d[2]] = "active" THEN "addressed" ELSE phase[d]]
    BY <2>4 DEF phase
  <2>6. UNCHANGED told
    BY <2>1 DEF told
  <2>7. Outbox!Address(e)
    BY <2>1, <2>3, <2>5, <2>6 DEF Outbox!Address, phase, told
  <2>. QED
    BY <2>7 DEF Outbox!Next
<1>3. CASE CreateEvent(e)
  <2>1. \A f \in Events : emits'[f].targets = emits[f].targets
    BY <1>0, <1>3, SMT DEF CreateEvent
  <2>. QED
    BY <1>0, <1>3, <1>s, <2>1 DEF CreateEvent, Phase, Over, At
<1>4. CASE CreateDeliveries(e)
  <2>1. \A f \in Events : emits'[f].targets = emits[f].targets
    BY <1>0, <1>4, SMT DEF CreateDeliveries
  <2>2. UNCHANGED <<endpoints, jobs, posts, accepted, faults>> /\ emits[e].pc = "rows"
    BY <1>4 DEF CreateDeliveries
  <2>3. ASSUME NEW d \in Deliveries
        PROVE  /\ Phase(d)' = IF d[1] = e /\ phase[d] = "addressed" THEN "open" ELSE phase[d]
               /\ (rows'[d].status = "DELIVERED") = (rows[d].status = "DELIVERED")
    <3>1. CASE d[1] = e /\ d[2] \in emits[e].targets
      <4>1. rows'[d].status = "PENDING" /\ rows[d].status = "NONE"
        BY <1>0, <1>4, <2>2, <3>1, SMT DEF CreateDeliveries, Row, OutboxInv, CommittedOnce
      <4>2. At(d, "absent")
        BY <4>1 DEF OutboxInv, NoJob
      <4>3. phase[d] = "addressed"
        BY <1>1, <3>1, <4>1 DEF Phase
      <4>4. ~Over(d)'
        BY <1>0, <2>1, <2>2, <3>1, <4>2 DEF Over, At
      <4>. QED
        BY <3>1, <4>1, <4>3, <4>4 DEF Phase
    <3>2. CASE ~(d[1] = e /\ d[2] \in emits[e].targets)
      <4>1. rows'[d] = rows[d]
        BY <1>4, <3>2 DEF CreateDeliveries
      <4>2. Phase(d)' = Phase(d)
        BY <1>0, <2>1, <2>2, <4>1 DEF Phase, Over, At
      <4>3. ~(d[1] = e /\ phase[d] = "addressed")
        BY <1>1, <3>2 DEF Phase
      <4>. QED
        BY <1>1, <4>1, <4>2, <4>3
    <3>. QED
      BY <3>1, <3>2
  <2>4. phase' = [d \in Deliveries |->
                    IF d[1] = e /\ phase[d] = "addressed" THEN "open" ELSE phase[d]]
        /\ UNCHANGED told
    BY <2>3 DEF phase, told
  <2>5. Outbox!Commit(e)
    BY <2>2, <2>4 DEF Outbox!Commit, Outbox!Moved, phase, told
  <2>. QED
    BY <2>5 DEF Outbox!Next
<1>5. ASSUME NEW p \in Endpoints, Added(e, p)
      PROVE  /\ rows[<<e, p>>].status # "NONE" /\ Phase(<<e, p>>) = "open"
             /\ At(<<e, p>>, "absent") /\ posts[<<e, p>>] = 0
             /\ \A d \in Deliveries \ {<<e, p>>} :
                  d[2] \in emits'[d[1]].targets <=> d[2] \in emits[d[1]].targets
             /\ p \notin emits'[e].targets
             /\ UNCHANGED <<endpoints, rows, posts, accepted>>
  <2>1. emits[e].pc = "add" /\ p \in emits[e].targets /\ UNCHANGED <<endpoints, rows, posts, accepted>>
    BY <1>5 DEF Added
  <2>2. rows[<<e, p>>].status # "NONE" /\ At(<<e, p>>, "absent")
    BY <2>1 DEF OutboxInv, CommittedOnce, WebhookInv, NotQueuedYet
  <2>3. posts[<<e, p>>] = 0
    BY <1>0, <2>2 DEF OutboxInv, NoJob
  <2>4. emits'[e].targets = emits[e].targets \ {p} /\ \A f \in Events \ {e} : emits'[f] = emits[f]
    BY <1>0, <1>5, SMT DEF Added
  <2>5. ASSUME NEW d \in Deliveries, d # <<e, p>>
        PROVE  d[2] \in emits'[d[1]].targets <=> d[2] \in emits[d[1]].targets
    <3>1. CASE d[1] = e
      <4>1. d[2] # p
        BY <1>0, <2>5, <3>1
      <4>. QED
        BY <2>4, <3>1, <4>1
    <3>2. CASE d[1] # e
      BY <1>0, <2>4, <3>2
    <3>. QED
      BY <3>1, <3>2
  <2>6. Phase(<<e, p>>) = "open"
    BY <2>1, <2>2 DEF Phase, Over, At
  <2>. QED
    BY <2>1, <2>2, <2>3, <2>4, <2>5, <2>6
<1>6. ASSUME NEW p \in Endpoints, AddJob(e, p) PROVE UNCHANGED Outbox!outboxVars
  <2>1. Added(e, p) /\ Goto(<<e, p>>, "waiting") /\ UNCHANGED faults
    BY <1>6 DEF AddJob, Goto
  <2>2. jobs'[<<e, p>>].pc = "waiting" /\ \A k \in Deliveries \ {<<e, p>>} : jobs'[k] = jobs[k]
    BY <1>0, <2>1, GotoType DEF RestPcs
  <2>3. ASSUME NEW d \in Deliveries PROVE Phase(d)' = Phase(d)
    <3>1. CASE d = <<e, p>>
      BY <1>5, <2>1, <2>2, <3>1 DEF Phase, Over, At
    <3>2. CASE d # <<e, p>>
      BY <1>5, <2>1, <2>2, <3>2 DEF Phase, Over, At
    <3>. QED
      BY <3>1, <3>2
  <2>. QED
    BY <1>5, <1>s, <2>1, <2>3
<1>7. ASSUME NEW p \in Endpoints, RejectAdd(e, p) PROVE Outbox!Next
  <2>1. Added(e, p) /\ faults' = faults + 1 /\ UNCHANGED jobs
    BY <1>7 DEF RejectAdd, Fault
  <2>2. Phase(<<e, p>>)' = "over"
    BY <1>5, <2>1 DEF Phase, Over, At
  <2>3. \A d \in Deliveries \ {<<e, p>>} : Phase(d)' = Phase(d)
    BY <1>5, <2>1 DEF Phase, Over, At
  <2>4. phase' = [d \in Deliveries |-> IF d \in {<<e, p>>} THEN "over" ELSE phase[d]] /\ UNCHANGED told
    BY <1>5, <2>1, <2>2, <2>3 DEF phase, told
  <2>5. {<<e, p>>} \in SUBSET {d \in Deliveries : phase[d] = "open" /\ posts[d] = 0}
    BY <1>0, <1>1, <1>5, <2>1
  <2>6. Outbox!Mishap
    BY <1>5, <2>1, <2>4, <2>5 DEF Outbox!Mishap, phase, told
  <2>. QED
    BY <2>6 DEF Outbox!Next
<1>8. CASE AbortEmit(e)
  <2>1. /\ faults' = faults + 1 /\ UNCHANGED <<endpoints, rows, jobs, posts, accepted>>
        /\ emits' = [emits EXCEPT ![e] = [pc |-> "done", targets |-> {}]]
        /\ emits[e].pc \in {"idle", "event", "rows", "add"}
    BY <1>8 DEF AbortEmit, Fault
  <2>2. emits'[e].targets = {} /\ \A f \in Events \ {e} : emits'[f] = emits[f]
    BY <1>0, <2>1
  <2>3. UNCHANGED told
    BY <2>1 DEF told
  <2>4. \A d \in Deliveries : d[1] # e => Phase(d)' = Phase(d)
    BY <1>0, <2>1, <2>2 DEF Phase, Over, At
  <2>5. CASE emits[e].pc \in {"idle", "event", "rows"}
    <3>1. ASSUME NEW d \in Deliveries, d[1] = e
          PROVE  Phase(d)' = IF phase[d] = "addressed" THEN "none" ELSE phase[d]
      <4>1. rows[d].status = "NONE" /\ rows'[d].status = "NONE"
        BY <1>0, <2>1, <2>5, <3>1 DEF OutboxInv, CommittedOnce
      <4>. QED
        BY <1>1, <2>2, <3>1, <4>1 DEF Phase
    <3>2. phase' = [d \in Deliveries |->
                      IF d[1] = e /\ phase[d] = "addressed" THEN "none" ELSE phase[d]]
      BY <1>1, <2>4, <3>1 DEF phase
    <3>3. Outbox!Mishap
      BY <2>1, <2>3, <3>2 DEF Outbox!Mishap, Outbox!Moved, phase, told
    <3>. QED
      BY <3>3 DEF Outbox!Next
  <2>6. CASE emits[e].pc = "add"
    <3> DEFINE lost == {d \in Deliveries : d[1] = e /\ d[2] \in emits[e].targets}
    <3>1. ASSUME NEW d \in lost PROVE phase[d] = "open" /\ posts[d] = 0 /\ Phase(d)' = "over"
      <4>1. rows[d].status # "NONE" /\ At(d, "absent")
        BY <1>0, <2>6 DEF OutboxInv, CommittedOnce, WebhookInv, NotQueuedYet
      <4>2. posts[d] = 0
        BY <4>1 DEF OutboxInv, NoJob
      <4>3. Phase(d) = "open" /\ Phase(d)' = "over"
        BY <2>1, <2>2, <4>1 DEF Phase, Over, At
      <4>. QED
        BY <1>1, <4>2, <4>3
    <3>2. ASSUME NEW d \in Deliveries, d \notin lost PROVE Phase(d)' = Phase(d)
      <4>1. CASE d[1] # e
        BY <2>4, <4>1
      <4>2. CASE d[1] = e
        BY <2>1, <2>2, <3>2, <4>2 DEF Phase, Over, At
      <4>. QED
        BY <4>1, <4>2
    <3>3. phase' = [d \in Deliveries |-> IF d \in lost THEN "over" ELSE phase[d]]
      BY <1>1, <3>1, <3>2 DEF phase
    <3>4. lost \in SUBSET {d \in Deliveries : phase[d] = "open" /\ posts[d] = 0}
      BY <3>1
    <3> HIDE DEF lost
    <3>5. Outbox!Mishap
      BY <2>1, <2>3, <3>3, <3>4 DEF Outbox!Mishap, phase, told
    <3>. QED
      BY <3>5 DEF Outbox!Next
  <2>. QED
    BY <2>1, <2>5, <2>6
<1>. QED
  BY <1>2, <1>3, <1>4, <1>6, <1>7, <1>8 DEF EmitStep

\* Every step of the code is a step of the abstract outbox, or shows nothing there.
LEMMA OutboxSteps ==
  ASSUME WebhookTypeOK, WebhookInv, NotBegun, OutboxInv, [WebhookNext]_webhookVars
  PROVE  [Outbox!Next]_(Outbox!outboxVars)
<1>1. ASSUME NEW p \in Endpoints, Register(p) \/ Deactivate(p) PROVE Outbox!Next
  <2>1. /\ \/ endpoints[p] = "absent" /\ endpoints' = [endpoints EXCEPT ![p] = "active"]
           \/ endpoints[p] = "active" /\ endpoints' = [endpoints EXCEPT ![p] = "inactive"]
        /\ UNCHANGED <<emits, rows, jobs, posts, accepted, faults>>
    BY <1>1 DEF Register, Deactivate
  <2>2. UNCHANGED <<phase, told>>
    BY <2>1 DEF phase, told, Phase, Over, At
  <2>3. Outbox!Change(p)
    BY <2>1, <2>2 DEF Outbox!Change, phase, told
  <2>. QED
    BY <2>3 DEF Outbox!Next
<1>2. CASE UNCHANGED webhookVars
  BY <1>2, OutboxStutters DEF webhookVars, phase, told, Phase, Over, At
<1>. QED
  BY <1>1, <1>2, EmissionSteps, WorkedSteps DEF WebhookNext

\* The outbox keeps its promise for any number of events, endpoints, tries and failures,
\* and however many emissions and workers are under way.
THEOREM OutboxIsKept == WebhookSafety => ImplementsOutbox
<1>1. WebhookInit => Outbox!Init
  <2> SUFFICES ASSUME WebhookInit PROVE Outbox!Init
    OBVIOUS
  <2>1. \A d \in Deliveries : Phase(d) = "none" /\ (rows[d].status = "DELIVERED") = FALSE
    BY DEF WebhookInit, Phase, Deliveries
  <2>2. phase = [d \in Deliveries |-> "none"] /\ told = [d \in Deliveries |-> FALSE]
    BY <2>1 DEF phase, told
  <2>. QED
    BY <2>2, SameDeliveries DEF WebhookInit, Outbox!Init, phase, told
<1>2. WebhookTypeOK /\ WebhookInv /\ NotBegun /\ OutboxInv /\ [WebhookNext]_webhookVars
        => [Outbox!Next]_(Outbox!outboxVars)
  BY OutboxSteps
<1>. QED
  BY <1>1, <1>2, OutboxInvariant, PTL DEF WebhookSafety, ImplementsOutbox, Outbox!Spec
=============================================================================
