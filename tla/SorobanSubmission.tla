-------------------------- MODULE SorobanSubmission --------------------------
(***************************************************************************)
(* invokeAsAdmin: every call reads the treasury account, builds a          *)
(* transaction with the next sequence number and a validity of Timeout,    *)
(* simulates, signs and sends it, and polls for its result.  All workers   *)
(* and the API process use the one treasury account, so calls that overlap *)
(* build transactions with the same number.                                *)
(*                                                                         *)
(* A transaction is its arguments, number and last valid second: two calls *)
(* for the same arguments in the same second build the same transaction,   *)
(* with the same hash.                                                     *)
(***************************************************************************)
EXTENDS Integers

CONSTANTS
  Calls,       \* calls of invokeAsAdmin
  Payers,      \* arguments of execute_billing
  None,        \* no arguments
  Timeout,     \* 60 s: validity of a transaction, and limit of the polling
  FaultKinds,  \* which failures of the environment may happen
  MaxNow,      \* bound: the clock stops here unless a poll waits for its time-out
  MaxFaults    \* bound: how many failures happen in one behaviour

ASSUME SubmissionAssumption ==
  /\ None \notin Payers
  /\ Timeout \in Nat
  /\ FaultKinds \subseteq {"reject", "lag"}
  /\ MaxNow \in Nat /\ MaxFaults \in Nat

VARIABLES
  calls,     \* calls[c]: where call c is, its arguments and transaction, the start of its polling
  sequence,  \* the treasury account's sequence number on the ledger
  pool,      \* the transactions that the network has accepted and not carried out
  ledger,    \* those carried out, with what became of them
  now,       \* the clock
  faults     \* failures of the environment so far

submissionVars == <<calls, sequence, pool, ledger, now, faults>>

Tx == [bill : Payers, seq : Nat, until : Nat]
NoTx == [seq |-> 0]
Fates == {"paid", "refused", "failed"}

Polling == {"check", "again"}
OpenPcs == {"account", "simulate", "send", "first"} \cup Polling
EndPcs == {"paid", "refused", "timedOut", "threw"}
Call == [pc : {"idle"} \cup OpenPcs \cup EndPcs, bill : Payers \cup {None},
         tx : Tx \cup {NoTx}, started : Nat]

At(c, pc) == calls[c].pc = pc
Goto(c, pc) == calls' = [calls EXCEPT ![c].pc = pc]
TxOf(c) == calls[c].tx
Became(tx, fate) == [tx |-> tx, fate |-> fate] \in ledger
Found(c) == \E fate \in Fates : Became(TxOf(c), fate)

Fault(kind) == kind \in FaultKinds /\ faults < MaxFaults /\ faults' = faults + 1

SubmissionInit ==
  /\ calls = [c \in Calls |-> [pc |-> "idle", bill |-> None, tx |-> NoTx, started |-> 0]]
  /\ sequence = 0
  /\ pool = {}
  /\ ledger = {}
  /\ now = 0
  /\ faults = 0

-----------------------------------------------------------------------------
(* invokeAsAdmin.                                                           *)

Begin(c, bill) ==
  /\ At(c, "idle")
  /\ calls' = [calls EXCEPT ![c] = [@ EXCEPT !.pc = "account", !.bill = bill]]
  /\ UNCHANGED <<sequence, pool, ledger, now, faults>>

\* Faulty GetAccount: the transaction stays valid longer than the poll lasts.
GetAccountLongValid(c) ==
  /\ At(c, "account")
  /\ calls' = [calls EXCEPT ![c] =
       [@ EXCEPT !.pc = "simulate",
                 !.tx = [bill |-> calls[c].bill, seq |-> sequence + 1, until |-> now + 2 * Timeout + 1]]]
  /\ UNCHANGED <<sequence, pool, ledger, now, faults>>

\* getAccount, and the transaction built from its answer.
GetAccount(c) ==
  /\ At(c, "account")
  /\ calls' = [calls EXCEPT ![c] =
       [@ EXCEPT !.pc = "simulate",
                 !.tx = [bill |-> calls[c].bill, seq |-> sequence + 1, until |-> now + Timeout]]]
  /\ UNCHANGED <<sequence, pool, ledger, now, faults>>

\* Faulty Simulate: the answer of getAccount is not awaited.
SimulateUnawaited(c) ==
  /\ calls[c].pc \in {"account", "simulate"} /\ Goto(c, "send")
  /\ UNCHANGED <<sequence, pool, ledger, now, faults>>

Simulate(c) ==
  /\ At(c, "simulate") /\ Goto(c, "send")
  /\ UNCHANGED <<sequence, pool, ledger, now, faults>>

\* No account, a simulation error, or the status ERROR: nothing was accepted.
Refuse(c) ==
  /\ calls[c].pc \in {"account", "simulate", "send"} /\ Goto(c, "threw")
  /\ UNCHANGED <<sequence, pool, ledger, now, faults>>

\* The status PENDING, or DUPLICATE for a transaction that is in the pool.
Send(c) ==
  /\ At(c, "send") /\ Goto(c, "first")
  /\ pool' = pool \cup {TxOf(c)}
  /\ UNCHANGED <<sequence, ledger, now, faults>>

\* TRY_AGAIN_LATER: the node did not take it; the call polls all the same.
SendInVain(c) ==
  /\ At(c, "send") /\ Goto(c, "first")
  /\ UNCHANGED <<sequence, pool, ledger, now, faults>>

\* The transaction is accepted, but the answer to the call is lost.
SendUnanswered(c) ==
  /\ Fault("reject")
  /\ At(c, "send") /\ Goto(c, "threw")
  /\ pool' = pool \cup {TxOf(c)}
  /\ UNCHANGED <<sequence, ledger, now>>

\* Faulty Read: a transaction that failed is taken for one that paid.
ReadFailedAsPaid(c) ==
  /\ calls[c].pc \in {"first", "again"}
  /\ \E fate \in Fates :
       Became(TxOf(c), fate) /\ Goto(c, IF fate = "failed" THEN "paid" ELSE fate)
  /\ UNCHANGED <<sequence, pool, ledger, now, faults>>

\* getTransaction finds it; a transaction that failed makes the call throw.
Read(c) ==
  /\ calls[c].pc \in {"first", "again"}
  /\ \E fate \in Fates :
       Became(TxOf(c), fate) /\ Goto(c, IF fate = "failed" THEN "threw" ELSE fate)
  /\ UNCHANGED <<sequence, pool, ledger, now, faults>>

\* NOT_FOUND: not carried out, or not yet known to the node that is asked.  The
\* polling time counts from the first answer.
ReadNothing(c) ==
  /\ calls[c].pc \in {"first", "again"}
  /\ ~Found(c) \/ "lag" \in FaultKinds
  /\ calls' = [calls EXCEPT ![c] =
       [@ EXCEPT !.pc = "check", !.started = IF At(c, "first") THEN now ELSE calls[c].started]]
  /\ UNCHANGED <<sequence, pool, ledger, now, faults>>

\* Faulty TimeOut: the call never gives up.
TimeOutNever(c) ==
  /\ At(c, "check") /\ FALSE
  /\ UNCHANGED submissionVars

TimeOut(c) ==
  /\ At(c, "check") /\ now - calls[c].started > Timeout
  /\ Goto(c, "timedOut")
  /\ UNCHANGED <<sequence, pool, ledger, now, faults>>

Wait(c) ==
  /\ At(c, "check") /\ now - calls[c].started <= Timeout
  /\ Goto(c, "again")
  /\ UNCHANGED <<sequence, pool, ledger, now, faults>>

\* An RPC call rejects, or the process dies.  What was sent stays sent.
Abort(c) ==
  /\ Fault("reject")
  /\ calls[c].pc \in OpenPcs /\ Goto(c, "threw")
  /\ UNCHANGED <<sequence, pool, ledger, now>>

-----------------------------------------------------------------------------
(* The network.                                                             *)

\* A transaction is carried out within its validity, on its turn.
Apply(tx, fate) ==
  /\ tx.seq = sequence + 1 /\ now <= tx.until
  /\ sequence' = tx.seq
  /\ pool' = pool \ {tx}
  /\ ledger' = ledger \cup {[tx |-> tx, fate |-> fate]}
  /\ UNCHANGED <<calls, now, faults>>

Tick ==
  /\ now < MaxNow \/ \E c \in Calls : calls[c].pc \in Polling /\ now - calls[c].started <= Timeout
  /\ now' = now + 1
  /\ UNCHANGED <<calls, sequence, pool, ledger, faults>>

CallStep(c) ==
  \/ GetAccount(c) \/ Simulate(c) \/ Refuse(c) \/ Send(c) \/ SendInVain(c)
  \/ Read(c) \/ ReadNothing(c) \/ TimeOut(c) \/ Wait(c)

SubmissionNext ==
  \/ \E c \in Calls, bill \in Payers : Begin(c, bill)
  \/ \E c \in Calls : CallStep(c) \/ SendUnanswered(c) \/ Abort(c)
  \/ \E tx \in pool, fate \in Fates : Apply(tx, fate)
  \/ Tick

SubmissionSafety == SubmissionInit /\ [][SubmissionNext]_submissionVars

\* Awaited calls return and time goes on.  The network owes nothing.
SubmissionSpec ==
  /\ SubmissionSafety
  /\ WF_submissionVars(Tick)
  /\ \A c \in Calls : WF_submissionVars(CallStep(c))

-----------------------------------------------------------------------------

\* Every variable has the type of the code's locals and of the ledger.
SubmissionTypeOK ==
  /\ calls \in [Calls -> Call]
  /\ \A c \in Calls : calls[c].pc \in OpenPcs \ {"account"} => TxOf(c) \in Tx
  /\ \A c \in Calls : At(c, "account") => calls[c].bill \in Payers
  /\ sequence \in Nat
  /\ pool \subseteq Tx
  /\ ledger \subseteq [tx : Tx, fate : Fates]
  /\ now \in Nat
  /\ faults \in Nat

Taken == {c \in Calls : Became(TxOf(c), "paid")}

Told == [c \in Calls |-> IF calls[c].pc = "idle" THEN "none"
                         ELSE IF calls[c].pc \in OpenPcs THEN "open" ELSE calls[c].pc]

Outcome == INSTANCE InvocationOutcome WITH answer <- Told, taken <- Taken

\* The answer a billing cycle acts on is true and stays true: Paid and Failed say
\* what the ledger says, and after "Timed out" the money does not move any more,
\* because the transaction expires before its poll does.  Sequence numbers that
\* collide, shared transactions, lagging nodes and lost answers change nothing.
ImplementsOutcome == Outcome!Spec

\* A call that began returns or throws, whatever the network does with it.
CallsEnd == \A c \in Calls : calls[c].pc \in OpenPcs ~> calls[c].pc \in EndPcs

-----------------------------------------------------------------------------
(* The invariants the proofs of the above rest on.                         *)

\* A number is used once, and in order.
NumbersUsedOnce ==
  /\ \A r \in ledger : r.tx.seq <= sequence
  /\ \A q, r \in ledger : q.tx.seq = r.tx.seq => q = r

\* A call that has not read the account has no transaction yet.
Fresh(c) == calls[c].pc \in {"idle", "account"} => TxOf(c) = NoTx

\* A poll ends after its transaction has expired.
PollOutlives(c) ==
  /\ calls[c].pc \in {"simulate", "send", "first"} => TxOf(c).until <= now + Timeout
  /\ calls[c].pc \in Polling => TxOf(c).until <= calls[c].started + Timeout
  /\ At(c, "timedOut") => TxOf(c) \in Tx /\ TxOf(c).until < now

AnswerTrue(c) ==
  /\ At(c, "paid") => Became(TxOf(c), "paid")
  /\ At(c, "refused") => Became(TxOf(c), "refused")

SubmissionInv == NumbersUsedOnce /\ \A c \in Calls : Fresh(c) /\ PollOutlives(c) /\ AnswerTrue(c)
=============================================================================
