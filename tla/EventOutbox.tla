----------------------------- MODULE EventOutbox -----------------------------
(***************************************************************************)
(* What the webhook outbox promises an endpoint, without its calls, tables *)
(* and jobs: an event goes to those who listen when it is emitted, to all  *)
(* of them or to none; an endpoint takes it once, and again only after     *)
(* something failed; a delivery ends when it is known to have been taken,  *)
(* after all its attempts, or after something failed.                      *)
(***************************************************************************)
EXTENDS Integers

CONSTANTS Events, Endpoints, Listens, Attempts

VARIABLES
  endpoints,  \* who is registered, active or deactivated
  phase,      \* phase[d]: whether the event is addressed to the endpoint, on its way, over
  sent,       \* the requests sent for d
  taken,      \* those the endpoint took
  told,       \* whether the books say that it took one
  mishaps     \* failures of the environment so far

outboxVars == <<endpoints, phase, sent, taken, told, mishaps>>

Deliveries == Events \X Endpoints

Init ==
  /\ endpoints = [p \in Endpoints |-> "absent"]
  /\ phase = [d \in Deliveries |-> "none"]
  /\ sent = [d \in Deliveries |-> 0]
  /\ taken = [d \in Deliveries |-> 0]
  /\ told = [d \in Deliveries |-> FALSE]
  /\ mishaps = 0

\* An endpoint is registered once and deactivated for good.
Change(p) ==
  /\ \/ endpoints[p] = "absent" /\ endpoints' = [endpoints EXCEPT ![p] = "active"]
     \/ endpoints[p] = "active" /\ endpoints' = [endpoints EXCEPT ![p] = "inactive"]
  /\ UNCHANGED <<phase, sent, taken, told, mishaps>>

\* The deliveries of e move from one phase to another together.
Moved(e, from, to) ==
  phase' = [d \in Deliveries |-> IF d[1] = e /\ phase[d] = from THEN to ELSE phase[d]]

\* The event is addressed to exactly those who listen now.
Address(e) ==
  /\ \A p \in Endpoints : phase[<<e, p>>] = "none"
  /\ phase' = [d \in Deliveries |->
       IF d[1] = e /\ d \in Listens /\ endpoints[d[2]] = "active" THEN "addressed" ELSE phase[d]]
  /\ UNCHANGED <<endpoints, sent, taken, told, mishaps>>

Commit(e) ==
  /\ Moved(e, "addressed", "open")
  /\ UNCHANGED <<endpoints, sent, taken, told, mishaps>>

\* Something fails; what was not committed is addressed to nobody, and what was not yet
\* handed over may be lost.
Mishap ==
  /\ mishaps' = mishaps + 1
  /\ \/ UNCHANGED phase
     \/ \E e \in Events : Moved(e, "addressed", "none")
     \/ \E lost \in SUBSET {d \in Deliveries : phase[d] = "open" /\ sent[d] = 0} :
          phase' = [d \in Deliveries |-> IF d \in lost THEN "over" ELSE phase[d]]
  /\ UNCHANGED <<endpoints, sent, taken, told>>

\* One request per attempt, and one more when a worker has died.  A late answer is a
\* failure as well.
Send(d) ==
  /\ phase[d] = "open" /\ sent[d] <= Attempts
  /\ sent' = [sent EXCEPT ![d] = @ + 1]
  /\ mishaps' \in {mishaps, mishaps + 1}
  /\ \/ UNCHANGED taken
     \/ taken[d] <= mishaps' /\ taken' = [taken EXCEPT ![d] = @ + 1]
  /\ UNCHANGED <<endpoints, phase, told>>

\* The books never claim what the endpoint did not take, and unlearn only after a failure.
Note(d) ==
  /\ phase[d] = "open"
  /\ \/ taken[d] > 0 /\ told' = [told EXCEPT ![d] = TRUE]
     \/ (told[d] => mishaps > 0) /\ told' = [told EXCEPT ![d] = FALSE]
  /\ UNCHANGED <<endpoints, phase, sent, taken, mishaps>>

End(d) ==
  /\ phase[d] = "open"
  /\ told[d] \/ sent[d] >= Attempts \/ mishaps > 0
  /\ phase' = [phase EXCEPT ![d] = "over"]
  /\ UNCHANGED <<endpoints, sent, taken, told, mishaps>>

Next ==
  \/ \E p \in Endpoints : Change(p)
  \/ \E e \in Events : Address(e) \/ Commit(e)
  \/ \E d \in Deliveries : Send(d) \/ Note(d) \/ End(d)
  \/ Mishap

Spec == Init /\ [][Next]_outboxVars
=============================================================================
