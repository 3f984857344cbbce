----------------------------- MODULE PaidPeriods -----------------------------
(***************************************************************************)
(* What billing promises, without its calls, queues and rows: a            *)
(* subscription moves into a new period only when the one before has been  *)
(* paid for, or when its client starts a fresh one today, and the books    *)
(* show a payment only if the money was collected.                         *)
(***************************************************************************)
EXTENDS Integers

CONSTANTS Subs, Dates, None

VARIABLES
  start,      \* start[s]: the start of the current period, None before there is one
  collected,  \* the <<subscription, period end>> pairs the subscriber has paid for
  booked,     \* those the books show as paid
  today

paidVars == <<start, collected, booked, today>>

Init ==
  /\ start = [s \in Subs |-> None]
  /\ collected = {}
  /\ booked = {}
  /\ today = 0

\* A subscription begins today, or after a trial.
Open(s) ==
  /\ start[s] = None
  /\ \E d \in Dates : d >= today /\ start' = [start EXCEPT ![s] = d]
  /\ UNCHANGED <<collected, booked, today>>

\* A fresh period begins today.
Restart(s) ==
  /\ start[s] # None
  /\ start' = [start EXCEPT ![s] = today]
  /\ UNCHANGED <<collected, booked, today>>

\* A period begins where a paid one ended.
Advance(s) ==
  /\ \E e \in Dates : <<s, e>> \in collected /\ start' = [start EXCEPT ![s] = e]
  /\ UNCHANGED <<collected, booked, today>>

Collect(s) ==
  /\ \E e \in Dates : collected' = collected \cup {<<s, e>>}
  /\ UNCHANGED <<start, booked, today>>

\* The payment enters the books, at the latest together with the money.
Book(s) ==
  /\ \E e \in Dates :
       /\ booked' = booked \cup {<<s, e>>}
       /\ collected' \in {collected, collected \cup {<<s, e>>}}
       /\ <<s, e>> \in collected'
  /\ UNCHANGED <<start, today>>

\* A payment can leave the books again: the money stays collected.
Unbook(s) ==
  /\ \E e \in Dates : booked' = booked \ {<<s, e>>}
  /\ UNCHANGED <<start, collected, today>>

NextDay ==
  /\ today' = today + 1
  /\ UNCHANGED <<start, collected, booked>>

Next ==
  \/ \E s \in Subs :
       Open(s) \/ Restart(s) \/ Advance(s) \/ Collect(s) \/ Book(s) \/ Unbook(s)
  \/ NextDay

Spec == Init /\ [][Next]_paidVars
=============================================================================
