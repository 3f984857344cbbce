----------------------------- MODULE GraceSweep -----------------------------
(***************************************************************************)
(* expireGracePeriods, which every scheduler tick ends with.  It reads the *)
(* subscriptions whose grace has run out, then cancels them one by one; a  *)
(* tick does not wait for the one before, so sweeps can overlap.           *)
(***************************************************************************)
EXTENDS BillingTables

CONSTANTS Sweepers   \* slots for runs of the sweep

VARIABLE sweeps      \* sweeps[w]: where run w is, and what it still has to cancel

IdleSweep == [pc |-> "idle", todo |-> {}]

Expired(s) ==
  /\ subs[s].status = "PAST_DUE"
  /\ subs[s].grace # NoTime
  /\ subs[s].grace <= now

FindExpired(w) ==
  /\ sweeps[w].pc = "idle"
  /\ \E s \in Subs : Expired(s)
  /\ sweeps' = [sweeps EXCEPT ![w] = [pc |-> "cancel", todo |-> {s \in Subs : Expired(s)}]]
  /\ UNCHANGED <<tables, now, faults>>

\* Faulty CancelExpired: it sets cancelAtPeriodEnd instead of the status.
CancelExpiredLater(w, s) ==
  /\ sweeps[w].pc = "cancel" /\ s \in sweeps[w].todo
  /\ subs' = [subs EXCEPT ![s].cancelAtEnd = TRUE]
  /\ sweeps' = [sweeps EXCEPT ![w] = [pc |-> "emit", todo |-> @.todo \ {s}]]
  /\ UNCHANGED <<payments, now, faults>>

\* The update does not look at what the row has become since the read.
CancelExpired(w, s) ==
  /\ sweeps[w].pc = "cancel" /\ s \in sweeps[w].todo
  /\ subs' = [subs EXCEPT ![s].status = "CANCELLED"]
  /\ sweeps' = [sweeps EXCEPT ![w] = [pc |-> "emit", todo |-> @.todo \ {s}]]
  /\ UNCHANGED <<payments, now, faults>>

EmitCancelled(w) ==
  /\ sweeps[w].pc = "emit"
  /\ sweeps' = [sweeps EXCEPT ![w] =
       IF @.todo = {} THEN IdleSweep ELSE [@ EXCEPT !.pc = "cancel"]]
  /\ UNCHANGED <<tables, now, faults>>

\* A rejected update or webhook ends the tick, and so does a crash: the rest is
\* left to a later tick.  It can happen before the sweep has begun.
AbortSweep(w) ==
  /\ {"reject", "crash"} \cap FaultKinds # {} /\ Fault
  /\ sweeps' = [sweeps EXCEPT ![w] = IdleSweep]
  /\ UNCHANGED <<tables, now>>

SweepStep(w) ==
  \/ FindExpired(w)
  \/ \E s \in Subs : CancelExpired(w, s)
  \/ EmitCancelled(w)

SweepInit == sweeps = [w \in Sweepers |-> IdleSweep]

SweepTypeOK ==
  sweeps \in [Sweepers -> [pc : {"idle", "cancel", "emit"}, todo : SUBSET Subs]]
=============================================================================
