----------------------- MODULE SorobanSubmissionProofs -----------------------
(***************************************************************************)
(* invokeAsAdmin keeps what InvocationOutcome promises: types, the         *)
(* inductive invariant SubmissionInv, and the refinement, for any number   *)
(* of calls, arguments and failures and any time-out.                      *)
(***************************************************************************)
EXTENDS SorobanSubmission, TLAPS

Pcs == {"idle"} \cup OpenPcs \cup EndPcs

\* What the update of one field of a call leaves and sets.
LEMMA MovedPc ==
  ASSUME SubmissionTypeOK, NEW c \in Calls, NEW pc \in Pcs, Goto(c, pc)
  PROVE  /\ calls' \in [Calls -> Call]
         /\ calls'[c] = [calls[c] EXCEPT !.pc = pc]
         /\ calls'[c].pc = pc /\ calls'[c].bill = calls[c].bill
         /\ calls'[c].tx = calls[c].tx /\ calls'[c].started = calls[c].started
         /\ \A k \in Calls \ {c} : calls'[k] = calls[k]
<1> DEFINE new == [calls[c] EXCEPT !.pc = pc]
<1>1. calls \in [Calls -> Call] /\ calls[c] \in Call
  BY DEF SubmissionTypeOK
<1>2. new \in Call
  BY <1>1, Zenon DEF Call, Pcs
<1>3. calls' = [calls EXCEPT ![c] = new]
  BY <1>1 DEF Goto
<1>4. new.pc = pc /\ new.bill = calls[c].bill /\ new.tx = calls[c].tx
      /\ new.started = calls[c].started
  BY <1>1 DEF Call
<1> HIDE DEF new
<1>5. calls' \in [Calls -> Call] /\ calls'[c] = new /\ \A k \in Calls \ {c} : calls'[k] = calls[k]
  BY <1>1, <1>2, <1>3
<1>6. QED
  BY <1>4, <1>5 DEF new

\* The call after getAccount: its transaction is the next one.
LEMMA BuiltTx ==
  ASSUME SubmissionTypeOK, NEW c \in Calls, GetAccount(c)
  PROVE  /\ calls' \in [Calls -> Call]
         /\ calls'[c].pc = "simulate" /\ calls'[c].tx \in Tx
         /\ calls'[c].tx.seq = sequence + 1 /\ calls'[c].tx.until = now + Timeout
         /\ \A k \in Calls \ {c} : calls'[k] = calls[k]
<1> DEFINE tx == [bill |-> calls[c].bill, seq |-> sequence + 1, until |-> now + Timeout]
<1> DEFINE new == [calls[c] EXCEPT !.pc = "simulate", !.tx = tx]
<1>1. calls \in [Calls -> Call] /\ calls[c] \in Call /\ calls[c].bill \in Payers
      /\ sequence \in Nat /\ now \in Nat /\ Timeout \in Nat
  BY SubmissionAssumption DEF SubmissionTypeOK, GetAccount, At
<1>2. tx \in Tx /\ tx.seq = sequence + 1 /\ tx.until = now + Timeout
  BY <1>1 DEF Tx
<1>3. calls' = [calls EXCEPT ![c] = new]
  BY <1>1 DEF GetAccount
<1> HIDE DEF tx
<1>4. new \in Call
  BY <1>1, <1>2, Zenon DEF Call, OpenPcs
<1>5. new.pc = "simulate" /\ new.tx = tx
  BY <1>1 DEF Call
<1> HIDE DEF new
<1>6. QED
  BY <1>1, <1>2, <1>3, <1>4, <1>5

\* The call after an answer NOT_FOUND.
LEMMA NotFound ==
  ASSUME SubmissionTypeOK, NEW c \in Calls, ReadNothing(c)
  PROVE  /\ calls' \in [Calls -> Call]
         /\ calls'[c].pc = "check" /\ calls'[c].tx = calls[c].tx
         /\ calls'[c].started = IF At(c, "first") THEN now ELSE calls[c].started
         /\ \A k \in Calls \ {c} : calls'[k] = calls[k]
<1> DEFINE at == IF At(c, "first") THEN now ELSE calls[c].started
<1> DEFINE new == [calls[c] EXCEPT !.pc = "check", !.started = at]
<1>1. calls \in [Calls -> Call] /\ calls[c] \in Call /\ now \in Nat
  BY DEF SubmissionTypeOK
<1>2. at \in Nat
  BY <1>1 DEF Call
<1>3. calls' = [calls EXCEPT ![c] = new]
  BY <1>1 DEF ReadNothing
<1> HIDE DEF at
<1>4. new \in Call
  BY <1>1, <1>2, Zenon DEF Call, OpenPcs, Polling
<1>5. new.pc = "check" /\ new.tx = calls[c].tx /\ new.started = at
  BY <1>1 DEF Call
<1> HIDE DEF new
<1>6. calls' \in [Calls -> Call] /\ calls'[c] = new /\ \A k \in Calls \ {c} : calls'[k] = calls[k]
  BY <1>1, <1>3, <1>4
<1>7. QED
  BY <1>5, <1>6 DEF at

\* The call after it has begun.
LEMMA Begun ==
  ASSUME SubmissionTypeOK, NEW c \in Calls, NEW bill \in Payers, Begin(c, bill)
  PROVE  /\ calls' \in [Calls -> Call]
         /\ calls'[c].pc = "account" /\ calls'[c].bill = bill /\ calls'[c].tx = calls[c].tx
         /\ \A k \in Calls \ {c} : calls'[k] = calls[k]
<1> DEFINE new == [calls[c] EXCEPT !.pc = "account", !.bill = bill]
<1>1. calls \in [Calls -> Call] /\ calls[c] \in Call
  BY DEF SubmissionTypeOK
<1>2. new \in Call
  BY <1>1, Zenon DEF Call, OpenPcs
<1>3. calls' = [calls EXCEPT ![c] = new]
  BY <1>1 DEF Begin
<1>4. new.pc = "account" /\ new.bill = bill /\ new.tx = calls[c].tx
  BY <1>1 DEF Call
<1> HIDE DEF new
<1>5. QED
  BY <1>1, <1>2, <1>3, <1>4

-----------------------------------------------------------------------------
(* Types.                                                                   *)

\* The part of SubmissionTypeOK that is about calls.
CallsOK ==
  /\ calls \in [Calls -> Call]
  /\ \A c \in Calls : calls[c].pc \in OpenPcs \ {"account"} => TxOf(c) \in Tx
  /\ \A c \in Calls : At(c, "account") => calls[c].bill \in Payers

\* A call that has its transaction keeps it as it goes on or ends.
LEMMA MovedOK ==
  ASSUME SubmissionTypeOK, NEW c \in Calls, NEW pc \in Pcs \ {"account"}, Goto(c, pc),
         calls[c].pc \in OpenPcs \ {"account"} \/ pc \in EndPcs
  PROVE  CallsOK'
<1>1. pc \in OpenPcs \ {"account"} => TxOf(c) \in Tx
  BY DEF SubmissionTypeOK, OpenPcs, EndPcs, Polling, TxOf, Pcs
<1>2. /\ calls' \in [Calls -> Call] /\ calls'[c].pc = pc /\ calls'[c].tx = calls[c].tx
      /\ \A k \in Calls \ {c} : calls'[k] = calls[k]
  BY MovedPc
<1>3. \A k \in Calls : /\ calls'[k].pc \in OpenPcs \ {"account"} => calls'[k].tx \in Tx
                       /\ calls'[k].pc = "account" => calls'[k].bill \in Payers
  BY <1>1, <1>2 DEF SubmissionTypeOK, At, TxOf
<1>4. QED
  BY <1>2, <1>3 DEF CallsOK, At, TxOf

LEMMA FaultCounted ==
  ASSUME SubmissionTypeOK, NEW kind, Fault(kind)
  PROVE  faults' \in Nat
BY DEF SubmissionTypeOK, Fault

LEMMA TypeKept ==
  ASSUME SubmissionTypeOK, [SubmissionNext]_submissionVars
  PROVE  SubmissionTypeOK'
<1> USE DEF SubmissionTypeOK
<1>1. ASSUME NEW c \in Calls, NEW bill \in Payers, Begin(c, bill)
      PROVE  SubmissionTypeOK'
  <2>1. CallsOK'
    BY <1>1, Begun DEF CallsOK, At, TxOf, OpenPcs, Polling
  <2>2. QED
    BY <1>1, <2>1 DEF Begin, CallsOK
<1>2. ASSUME NEW c \in Calls, GetAccount(c)
      PROVE  SubmissionTypeOK'
  <2>1. CallsOK'
    BY <1>2, BuiltTx DEF CallsOK, At, TxOf
  <2>2. QED
    BY <1>2, <2>1 DEF GetAccount, CallsOK
<1>3. ASSUME NEW c \in Calls, Simulate(c)
      PROVE  SubmissionTypeOK'
  <2>1. CallsOK'
    BY <1>3, MovedOK DEF Simulate, At, Pcs, OpenPcs
  <2>2. QED
    BY <1>3, <2>1 DEF Simulate, CallsOK
<1>4. ASSUME NEW c \in Calls, Refuse(c)
      PROVE  SubmissionTypeOK'
  <2>1. CallsOK'
    BY <1>4, MovedOK DEF Refuse, At, Pcs, EndPcs
  <2>2. QED
    BY <1>4, <2>1 DEF Refuse, CallsOK
<1>5. ASSUME NEW c \in Calls, Send(c)
      PROVE  SubmissionTypeOK'
  <2>1. CallsOK' /\ TxOf(c) \in Tx
    BY <1>5, MovedOK DEF Send, At, Pcs, OpenPcs
  <2>2. QED
    BY <1>5, <2>1 DEF Send, CallsOK
<1>6. ASSUME NEW c \in Calls, SendInVain(c)
      PROVE  SubmissionTypeOK'
  <2>1. CallsOK'
    BY <1>6, MovedOK DEF SendInVain, At, Pcs, OpenPcs
  <2>2. QED
    BY <1>6, <2>1 DEF SendInVain, CallsOK
<1>7. ASSUME NEW c \in Calls, SendUnanswered(c)
      PROVE  SubmissionTypeOK'
  <2>1. CallsOK' /\ TxOf(c) \in Tx
    BY <1>7, MovedOK DEF SendUnanswered, At, Pcs, OpenPcs, EndPcs
  <2>2. QED
    BY <1>7, <2>1, FaultCounted DEF SendUnanswered, CallsOK
<1>8. ASSUME NEW c \in Calls, Read(c)
      PROVE  SubmissionTypeOK'
  <2>1. PICK pc \in EndPcs : Goto(c, pc)
    BY <1>8 DEF Read, Fates, EndPcs
  <2>2. CallsOK'
    BY <2>1, MovedOK DEF Pcs, EndPcs
  <2>3. QED
    BY <1>8, <2>2 DEF Read, CallsOK
<1>9. ASSUME NEW c \in Calls, ReadNothing(c)
      PROVE  SubmissionTypeOK'
  <2>1. TxOf(c) \in Tx
    BY <1>9 DEF ReadNothing, OpenPcs, Polling
  <2>2. CallsOK'
    BY <1>9, <2>1, NotFound DEF CallsOK, At, TxOf
  <2>3. QED
    BY <1>9, <2>2 DEF ReadNothing, CallsOK
<1>10. ASSUME NEW c \in Calls, TimeOut(c)
       PROVE  SubmissionTypeOK'
  <2>1. CallsOK'
    BY <1>10, MovedOK DEF TimeOut, Pcs, EndPcs
  <2>2. QED
    BY <1>10, <2>1 DEF TimeOut, CallsOK
<1>11. ASSUME NEW c \in Calls, Wait(c)
       PROVE  SubmissionTypeOK'
  <2>1. CallsOK'
    BY <1>11, MovedOK DEF Wait, At, Pcs, OpenPcs, Polling
  <2>2. QED
    BY <1>11, <2>1 DEF Wait, CallsOK
<1>12. ASSUME NEW c \in Calls, Abort(c)
       PROVE  SubmissionTypeOK'
  <2>1. CallsOK'
    BY <1>12, MovedOK DEF Abort, Pcs, EndPcs
  <2>2. QED
    BY <1>12, <2>1, FaultCounted DEF Abort, CallsOK
<1>13. ASSUME NEW tx \in pool, NEW fate \in Fates, Apply(tx, fate)
       PROVE  SubmissionTypeOK'
  <2>1. tx \in Tx /\ tx.seq \in Nat /\ [tx |-> tx, fate |-> fate] \in [tx : Tx, fate : Fates]
    BY DEF Tx
  <2>2. QED
    BY <1>13, <2>1 DEF Apply, At, TxOf
<1>14. CASE Tick
  BY <1>14 DEF Tick, At, TxOf
<1>15. CASE UNCHANGED submissionVars
  BY <1>15 DEF submissionVars, At, TxOf
<1>16. QED
  BY <1>1, <1>2, <1>3, <1>4, <1>5, <1>6, <1>7, <1>8, <1>9, <1>10, <1>11, <1>12, <1>13, <1>14,
     <1>15 DEF SubmissionNext, CallStep

LEMMA TypeAtFirst == SubmissionInit => SubmissionTypeOK
<1> SUFFICES ASSUME SubmissionInit PROVE SubmissionTypeOK
  OBVIOUS
<1> DEFINE first == [pc |-> "idle", bill |-> None, tx |-> NoTx, started |-> 0]
<1>1. first \in Call
  BY DEF Call
<1>2. \A c \in Calls : calls[c] = first /\ calls[c].pc = "idle"
  BY DEF SubmissionInit
<1>3. calls \in [Calls -> Call]
  BY <1>1, <1>2 DEF SubmissionInit
<1>4. QED
  BY <1>2, <1>3 DEF SubmissionInit, SubmissionTypeOK, At, OpenPcs, Polling

\* The types hold in every behaviour, whatever the network does.
THEOREM SubmissionTyped == SubmissionSafety => []SubmissionTypeOK
BY TypeAtFirst, TypeKept, PTL DEF SubmissionSafety

-----------------------------------------------------------------------------
(* The invariant.                                                           *)

\* A step of one call that leaves the ledger and the clock alone.
LEMMA OneCallMoves ==
  ASSUME SubmissionTypeOK, SubmissionInv, NEW c \in Calls,
         UNCHANGED <<sequence, ledger, now>>,
         \A k \in Calls \ {c} : calls'[k] = calls[k],
         Fresh(c)', PollOutlives(c)', AnswerTrue(c)'
  PROVE  SubmissionInv'
<1>1. NumbersUsedOnce'
  BY DEF SubmissionInv, NumbersUsedOnce
<1>2. ASSUME NEW k \in Calls \ {c}
      PROVE  Fresh(k)' /\ PollOutlives(k)' /\ AnswerTrue(k)'
  BY DEF SubmissionInv, Fresh, PollOutlives, AnswerTrue, At, TxOf, Became
<1>3. QED
  BY <1>1, <1>2 DEF SubmissionInv

\* A call that goes on with its transaction, or gives up without an answer.
LEMMA PcMoves ==
  ASSUME SubmissionTypeOK, SubmissionInv, NEW c \in Calls, NEW pc \in Pcs, Goto(c, pc),
         UNCHANGED <<sequence, ledger, now>>,
         \/ pc = "threw"
         \/ calls[c].pc \in {"simulate", "send"} /\ pc \in {"send", "first"}
         \/ calls[c].pc \in Polling /\ pc \in Polling
         \/ pc = "timedOut" /\ TxOf(c) \in Tx /\ TxOf(c).until < now
         \/ pc \in {"paid", "refused"} /\ Became(TxOf(c), pc)
  PROVE  SubmissionInv'
<1>1. /\ calls'[c].pc = pc /\ calls'[c].tx = calls[c].tx /\ calls'[c].started = calls[c].started
      /\ \A k \in Calls \ {c} : calls'[k] = calls[k]
  BY MovedPc
<1>2. PollOutlives(c) /\ AnswerTrue(c)
  BY DEF SubmissionInv
<1>3. PollOutlives(c)'
  BY <1>1, <1>2 DEF PollOutlives, At, TxOf, Polling
<1>4. AnswerTrue(c)'
  BY <1>1 DEF AnswerTrue, At, TxOf, Became, Polling
<1>5. Fresh(c)'
  BY <1>1 DEF Fresh, Polling
<1>6. QED
  BY <1>1, <1>3, <1>4, <1>5, OneCallMoves

LEMMA InvKept ==
  ASSUME SubmissionTypeOK, SubmissionInv, [SubmissionNext]_submissionVars
  PROVE  SubmissionInv'
<1> USE SubmissionAssumption
<1>1. ASSUME NEW c \in Calls, NEW bill \in Payers, Begin(c, bill)
      PROVE  SubmissionInv'
  <2>1. calls'[c].pc = "account" /\ calls'[c].tx = calls[c].tx
        /\ \A k \in Calls \ {c} : calls'[k] = calls[k]
    BY <1>1, Begun
  <2>2. Fresh(c)' /\ PollOutlives(c)' /\ AnswerTrue(c)'
    BY <1>1, <2>1 DEF SubmissionInv, Begin, Fresh, PollOutlives, AnswerTrue, At, TxOf, Polling
  <2>3. QED
    BY <1>1, <2>1, <2>2, OneCallMoves DEF Begin
<1>2. ASSUME NEW c \in Calls, GetAccount(c)
      PROVE  SubmissionInv'
  <2>1. calls'[c].pc = "simulate" /\ calls'[c].tx.until = now + Timeout
        /\ \A k \in Calls \ {c} : calls'[k] = calls[k]
    BY <1>2, BuiltTx
  <2>2. UNCHANGED <<sequence, ledger, now>> /\ now \in Nat
    BY <1>2 DEF GetAccount, SubmissionTypeOK
  <2>3. Fresh(c)' /\ PollOutlives(c)' /\ AnswerTrue(c)'
    BY <2>1, <2>2 DEF Fresh, PollOutlives, AnswerTrue, At, TxOf, Polling
  <2>4. QED
    BY <2>1, <2>2, <2>3, OneCallMoves
<1>3. ASSUME NEW c \in Calls, Simulate(c) \/ Send(c) \/ SendInVain(c)
      PROVE  SubmissionInv'
  <2>1. PICK pc \in {"send", "first"} : Goto(c, pc) /\ calls[c].pc \in {"simulate", "send"}
    BY <1>3 DEF Simulate, Send, SendInVain, At
  <2>2. UNCHANGED <<sequence, ledger, now>>
    BY <1>3 DEF Simulate, Send, SendInVain
  <2>3. QED
    BY <2>1, <2>2, PcMoves DEF Pcs, OpenPcs
<1>4. ASSUME NEW c \in Calls, Refuse(c) \/ SendUnanswered(c) \/ Abort(c)
      PROVE  SubmissionInv'
  <2>1. Goto(c, "threw") /\ UNCHANGED <<sequence, ledger, now>>
    BY <1>4 DEF Refuse, SendUnanswered, Abort
  <2>2. QED
    BY <2>1, PcMoves DEF Pcs, EndPcs
<1>5. ASSUME NEW c \in Calls, Read(c)
      PROVE  SubmissionInv'
  <2>1. PICK fate \in Fates : Became(TxOf(c), fate)
                              /\ Goto(c, IF fate = "failed" THEN "threw" ELSE fate)
    BY <1>5 DEF Read
  <2>2. UNCHANGED <<sequence, ledger, now>>
    BY <1>5 DEF Read
  <2>3. CASE fate = "failed"
    BY <2>1, <2>2, <2>3, PcMoves DEF Pcs, EndPcs
  <2>4. CASE fate # "failed"
    <3>1. fate \in {"paid", "refused"} /\ Goto(c, fate)
      BY <2>1, <2>4 DEF Fates
    <3>2. QED
      BY <2>1, <2>2, <3>1, PcMoves DEF Pcs, EndPcs
  <2>5. QED
    BY <2>3, <2>4
<1>6. ASSUME NEW c \in Calls, ReadNothing(c)
      PROVE  SubmissionInv'
  <2>1. /\ calls'[c].pc = "check" /\ calls'[c].tx = calls[c].tx
        /\ calls'[c].started = IF At(c, "first") THEN now ELSE calls[c].started
        /\ \A k \in Calls \ {c} : calls'[k] = calls[k]
    BY <1>6, NotFound
  <2>2. UNCHANGED <<sequence, ledger, now>> /\ calls[c].pc \in {"first", "again"}
    BY <1>6 DEF ReadNothing
  <2>3. PollOutlives(c)
    BY DEF SubmissionInv
  <2>4. Fresh(c)' /\ PollOutlives(c)' /\ AnswerTrue(c)'
    BY <2>1, <2>2, <2>3 DEF Fresh, PollOutlives, AnswerTrue, At, TxOf, Polling
  <2>5. QED
    BY <2>1, <2>2, <2>4, OneCallMoves
<1>7. ASSUME NEW c \in Calls, TimeOut(c)
      PROVE  SubmissionInv'
  <2>1. calls[c] \in Call /\ TxOf(c) \in Tx /\ calls[c].pc \in Polling
    BY <1>7 DEF SubmissionTypeOK, TimeOut, At, OpenPcs, Polling
  <2>2. TxOf(c).until <= calls[c].started + Timeout
    BY <2>1 DEF SubmissionInv, PollOutlives
  <2>3. TxOf(c).until < now
    BY <1>7, <2>1, <2>2 DEF TimeOut, Tx, Call, SubmissionTypeOK
  <2>4. Goto(c, "timedOut") /\ UNCHANGED <<sequence, ledger, now>>
    BY <1>7 DEF TimeOut
  <2>5. QED
    BY <2>1, <2>3, <2>4, PcMoves DEF Pcs, EndPcs
<1>8. ASSUME NEW c \in Calls, Wait(c)
      PROVE  SubmissionInv'
  <2>1. Goto(c, "again") /\ calls[c].pc \in Polling /\ UNCHANGED <<sequence, ledger, now>>
    BY <1>8 DEF Wait, At, Polling
  <2>2. QED
    BY <2>1, PcMoves DEF Pcs, OpenPcs, Polling
<1>9. ASSUME NEW tx \in pool, NEW fate \in Fates, Apply(tx, fate)
      PROVE  SubmissionInv'
  <2>1. tx.seq = sequence + 1 /\ sequence' = tx.seq /\ sequence \in Nat
        /\ ledger' = ledger \cup {[tx |-> tx, fate |-> fate]}
        /\ UNCHANGED <<calls, now>>
    BY <1>9 DEF Apply, SubmissionTypeOK
  <2>2. \A r \in ledger : r.tx.seq \in Nat /\ r.tx.seq <= sequence
    BY DEF SubmissionInv, NumbersUsedOnce, SubmissionTypeOK, Tx
  <2>3. NumbersUsedOnce'
    BY <2>1, <2>2 DEF SubmissionInv, NumbersUsedOnce
  <2>4. \A c \in Calls : Fresh(c)' /\ PollOutlives(c)' /\ AnswerTrue(c)'
    BY <2>1 DEF SubmissionInv, Fresh, PollOutlives, AnswerTrue, At, TxOf, Became
  <2>5. QED
    BY <2>3, <2>4 DEF SubmissionInv
<1>10. CASE Tick
  <2>1. now' = now + 1 /\ now \in Nat /\ UNCHANGED <<calls, sequence, ledger>>
    BY <1>10 DEF Tick, SubmissionTypeOK
  <2>2. \A c \in Calls : calls[c].pc \in OpenPcs \ {"account"} \/ At(c, "timedOut")
                           => TxOf(c).until \in Nat
    BY DEF SubmissionTypeOK, Tx, SubmissionInv, PollOutlives
  <2>3. \A c \in Calls : Fresh(c)' /\ PollOutlives(c)' /\ AnswerTrue(c)'
    BY <2>1, <2>2 DEF SubmissionInv, Fresh, PollOutlives, AnswerTrue, At, TxOf, Became, OpenPcs, Polling
  <2>4. QED
    BY <2>1, <2>3 DEF SubmissionInv, NumbersUsedOnce
<1>11. CASE UNCHANGED submissionVars
  BY <1>11 DEF submissionVars, SubmissionInv, NumbersUsedOnce, Fresh, PollOutlives, AnswerTrue, At, TxOf,
     Became
<1>12. QED
  BY <1>1, <1>2, <1>3, <1>4, <1>5, <1>6, <1>7, <1>8, <1>9, <1>10, <1>11
  DEF SubmissionNext, CallStep

LEMMA InvAtFirst == SubmissionInit => SubmissionInv
BY DEF SubmissionInit, SubmissionInv, NumbersUsedOnce, Fresh, PollOutlives, AnswerTrue, At, TxOf,
       Polling

\* Sequence numbers are used once and in order, a call that says Paid or Failed says
\* what the ledger says, and one that timed out left an expired transaction.
THEOREM SubmissionSound == SubmissionSafety => []SubmissionInv
BY InvAtFirst, TypeAtFirst, TypeKept, InvKept, PTL DEF SubmissionSafety
-----------------------------------------------------------------------------
(* The refinement.                                                          *)

\* A step of one call that carries out no transaction: the abstract caller sees the
\* change of that call's answer, and no money moves.
LEMMA OneCallSeen ==
  ASSUME SubmissionTypeOK, SubmissionInv, NEW c \in Calls, ledger' = ledger,
         \A k \in Calls \ {c} : calls'[k] = calls[k],
         \/ calls'[c].tx = calls[c].tx
         \/ calls[c].pc = "account" /\ calls'[c].tx.seq = sequence + 1
  PROVE  /\ Taken' = Taken
         /\ Told' = [Told EXCEPT ![c] = Told'[c]]
<1>1. \A k \in Calls \ {c} : k \in Taken' <=> k \in Taken
  BY DEF Taken, Became, TxOf
<1>2. c \in Taken' <=> c \in Taken
  <2>1. CASE calls'[c].tx = calls[c].tx
    BY <2>1 DEF Taken, Became, TxOf
  <2>2. CASE calls[c].pc = "account" /\ calls'[c].tx.seq = sequence + 1
    <3>1. TxOf(c) = NoTx /\ sequence \in Nat
      BY <2>2 DEF SubmissionInv, Fresh, SubmissionTypeOK
    <3>2. \A r \in ledger : r.tx \in Tx /\ r.tx.seq \in Nat /\ r.tx.seq <= sequence
      BY DEF SubmissionInv, NumbersUsedOnce, SubmissionTypeOK, Tx
    <3>3. NoTx \notin Tx
      BY DEF NoTx, Tx
    <3>4. ~Became(TxOf(c), "paid")
      BY <3>1, <3>2, <3>3 DEF Became
    <3>5. ~Became(TxOf(c), "paid")'
      BY <2>2, <3>1, <3>2 DEF Became, TxOf
    <3>6. QED
      BY <3>4, <3>5 DEF Taken
  <2>3. QED
    BY <2>1, <2>2
<1>3. Taken' = Taken
  BY <1>1, <1>2 DEF Taken
<1>4. \A k \in Calls \ {c} : Told'[k] = Told[k]
  BY DEF Told
<1>5. Told' = [k \in Calls |-> Told'[k]] /\ Told = [k \in Calls |-> Told[k]]
  BY DEF Told
<1>6. QED
  BY <1>3, <1>4, <1>5

\* A call that stays open is a stutter of the abstract specification.
LEMMA StaysOpen ==
  ASSUME SubmissionTypeOK, SubmissionInv, NEW c \in Calls, ledger' = ledger,
         \A k \in Calls \ {c} : calls'[k] = calls[k],
         calls[c].pc \in OpenPcs, calls'[c].pc \in OpenPcs,
         \/ calls'[c].tx = calls[c].tx
         \/ calls[c].pc = "account" /\ calls'[c].tx.seq = sequence + 1
  PROVE  UNCHANGED <<Told, Taken>>
<1>1. Taken' = Taken /\ Told' = [Told EXCEPT ![c] = Told'[c]]
  BY OneCallSeen
<1>2. Told[c] = "open" /\ Told'[c] = "open"
  BY DEF Told, OpenPcs, Polling
<1>3. Told = [k \in Calls |-> Told[k]]
  BY DEF Told
<1>4. QED
  BY <1>1, <1>2, <1>3

\* A call that ends answers, with what AnswerTrue makes of the ledger.
LEMMA EndIsAnswer ==
  ASSUME SubmissionTypeOK, SubmissionInv, NEW c \in Calls, NEW pc \in EndPcs, Goto(c, pc),
         ledger' = ledger, calls[c].pc \in OpenPcs,
         pc \in {"paid", "refused"} => Became(TxOf(c), pc)
  PROVE  Outcome!Answer(c, pc)
<1>1. /\ calls'[c].pc = pc /\ calls'[c].tx = calls[c].tx
      /\ \A k \in Calls \ {c} : calls'[k] = calls[k]
  BY MovedPc DEF Pcs
<1>2. Taken' = Taken /\ Told' = [Told EXCEPT ![c] = Told'[c]]
  BY <1>1, OneCallSeen
<1>3. Told[c] = "open" /\ Told'[c] = pc
  BY <1>1 DEF Told, OpenPcs, EndPcs, Polling
<1>4. pc = "paid" => c \in Taken
  BY DEF Taken
<1>5. pc = "refused" => c \notin Taken
  <2> SUFFICES ASSUME pc = "refused", c \in Taken PROVE FALSE
    OBVIOUS
  <2> DEFINE q == [tx |-> TxOf(c), fate |-> "refused"]
  <2> DEFINE r == [tx |-> TxOf(c), fate |-> "paid"]
  <2>1. q \in ledger /\ r \in ledger
    BY DEF Taken, Became
  <2>2. q.tx.seq = r.tx.seq /\ q.fate # r.fate
    OBVIOUS
  <2> HIDE DEF q, r
  <2>3. QED
    BY <2>1, <2>2 DEF SubmissionInv, NumbersUsedOnce
<1>6. QED
  BY <1>2, <1>3, <1>4, <1>5 DEF Outcome!Answer

\* A transaction carried out as paid moves the money of the calls that built it, none
\* of which has been told anything but an error of the transport.
LEMMA ApplyIsTake ==
  ASSUME SubmissionTypeOK, SubmissionInv, NEW tx \in pool, NEW fate \in Fates, Apply(tx, fate)
  PROVE  [Outcome!Next]_<<Told, Taken>>
<1> DEFINE moved == {c \in Calls : TxOf(c) = tx}
<1>1. /\ tx \in Tx /\ tx.seq = sequence + 1 /\ now <= tx.until /\ calls' = calls
      /\ ledger' = ledger \cup {[tx |-> tx, fate |-> fate]}
      /\ sequence \in Nat /\ now \in Nat /\ tx.until \in Nat
  BY DEF Apply, SubmissionTypeOK, Tx
<1>2. Told' = Told
  BY <1>1 DEF Told
<1>3. \A c \in Calls : TxOf(c)' = TxOf(c)
  BY <1>1 DEF TxOf
<1>4. \A r \in ledger : r.tx # tx
  BY <1>1 DEF SubmissionInv, NumbersUsedOnce, SubmissionTypeOK, Tx
<1>5. CASE fate # "paid"
  <2>1. \A c \in Calls : Became(TxOf(c), "paid")' <=> Became(TxOf(c), "paid")
    BY <1>1, <1>3, <1>5 DEF Became
  <2>2. Taken' = Taken
    BY <2>1 DEF Taken
  <2>3. QED
    BY <1>2, <2>2
<1>6. CASE fate = "paid"
  <2>1. \A c \in Calls : Became(TxOf(c), "paid")' <=> Became(TxOf(c), "paid") \/ TxOf(c) = tx
    BY <1>1, <1>3, <1>6 DEF Became
  <2>2. Taken' = Taken \cup moved
    BY <2>1 DEF Taken
  <2>3. CASE moved = {}
    BY <1>2, <2>2, <2>3
  <2>4. CASE moved # {}
    <3>1. moved \cap Taken = {}
      BY <1>4 DEF Taken, Became
    <3>2. ASSUME NEW c \in moved
          PROVE  Told[c] \in {"open", "threw"}
      <4>1. calls[c].pc \in Pcs /\ Fresh(c) /\ PollOutlives(c) /\ AnswerTrue(c) /\ TxOf(c) = tx
        BY <3>2 DEF SubmissionTypeOK, SubmissionInv, Call, Pcs
      <4>2. NoTx \notin Tx
        BY DEF NoTx, Tx
      <4>3. calls[c].pc # "idle"
        BY <1>1, <4>1, <4>2 DEF Fresh
      <4>4. calls[c].pc # "timedOut"
        BY <1>1, <4>1 DEF PollOutlives, At
      <4>5. ~Became(tx, "paid") /\ ~Became(tx, "refused")
        BY <1>4 DEF Became
      <4>6. calls[c].pc \notin {"paid", "refused"}
        BY <4>1, <4>5 DEF AnswerTrue, At
      <4>7. QED
        BY <4>1, <4>3, <4>4, <4>6 DEF Told, Pcs, EndPcs
    <3>3. moved \in SUBSET Calls
      OBVIOUS
    <3> HIDE DEF moved
    <3>4. Outcome!Take(moved)
      BY <1>2, <2>2, <2>4, <3>1, <3>2 DEF Outcome!Take
    <3>5. QED
      BY <3>3, <3>4 DEF Outcome!Next
  <2>5. QED
    BY <2>3, <2>4
<1>7. QED
  BY <1>5, <1>6

LEMMA StepImplements ==
  ASSUME SubmissionTypeOK, SubmissionInv, [SubmissionNext]_submissionVars
  PROVE  [Outcome!Next]_<<Told, Taken>>
<1>1. ASSUME NEW c \in Calls, NEW bill \in Payers, Begin(c, bill)
      PROVE  Outcome!Begin(c)
  <2>1. calls[c].pc = "idle" /\ calls'[c].pc = "account" /\ calls'[c].tx = calls[c].tx
        /\ ledger' = ledger /\ \A k \in Calls \ {c} : calls'[k] = calls[k]
    BY <1>1, Begun DEF Begin, At
  <2>2. Taken' = Taken /\ Told' = [Told EXCEPT ![c] = Told'[c]]
    BY <2>1, OneCallSeen
  <2>3. Told[c] = "none" /\ Told'[c] = "open"
    BY <2>1 DEF Told, OpenPcs
  <2>4. QED
    BY <2>2, <2>3 DEF Outcome!Begin
<1>2. ASSUME NEW c \in Calls, GetAccount(c)
      PROVE  UNCHANGED <<Told, Taken>>
  <2>1. /\ calls[c].pc = "account" /\ calls'[c].pc = "simulate" /\ ledger' = ledger
        /\ calls'[c].tx.seq = sequence + 1 /\ \A k \in Calls \ {c} : calls'[k] = calls[k]
    BY <1>2, BuiltTx DEF GetAccount, At
  <2>2. QED
    BY <2>1, StaysOpen DEF OpenPcs
<1>3. ASSUME NEW c \in Calls, Simulate(c) \/ Send(c) \/ SendInVain(c) \/ Wait(c)
      PROVE  UNCHANGED <<Told, Taken>>
  <2>1. PICK pc \in {"send", "first", "again"} : Goto(c, pc)
    BY <1>3 DEF Simulate, Send, SendInVain, Wait
  <2>2. ledger' = ledger /\ calls[c].pc \in OpenPcs /\ pc \in OpenPcs /\ pc \in Pcs
    BY <1>3 DEF Simulate, Send, SendInVain, Wait, At, OpenPcs, Polling, Pcs
  <2>3. /\ calls'[c].pc = pc /\ calls'[c].tx = calls[c].tx
        /\ \A k \in Calls \ {c} : calls'[k] = calls[k]
    BY <2>1, <2>2, MovedPc
  <2>4. QED
    BY <2>2, <2>3, StaysOpen
<1>4. ASSUME NEW c \in Calls, ReadNothing(c)
      PROVE  UNCHANGED <<Told, Taken>>
  <2>1. /\ calls'[c].pc = "check" /\ calls'[c].tx = calls[c].tx
        /\ \A k \in Calls \ {c} : calls'[k] = calls[k]
    BY <1>4, NotFound
  <2>2. ledger' = ledger /\ calls[c].pc \in OpenPcs
    BY <1>4 DEF ReadNothing, OpenPcs, Polling
  <2>3. QED
    BY <2>1, <2>2, StaysOpen DEF OpenPcs, Polling
<1>5. ASSUME NEW c \in Calls, Refuse(c) \/ SendUnanswered(c) \/ Abort(c)
      PROVE  Outcome!Answer(c, "threw")
  <2>1. Goto(c, "threw") /\ ledger' = ledger /\ calls[c].pc \in OpenPcs
    BY <1>5 DEF Refuse, SendUnanswered, Abort, At, OpenPcs
  <2>2. QED
    BY <2>1, EndIsAnswer DEF EndPcs
<1>6. ASSUME NEW c \in Calls, TimeOut(c)
      PROVE  Outcome!Answer(c, "timedOut")
  <2>1. Goto(c, "timedOut") /\ ledger' = ledger /\ calls[c].pc \in OpenPcs
    BY <1>6 DEF TimeOut, At, OpenPcs, Polling
  <2>2. QED
    BY <2>1, EndIsAnswer DEF EndPcs
<1>7. ASSUME NEW c \in Calls, Read(c)
      PROVE  \E told \in EndPcs : Outcome!Answer(c, told)
  <2>1. PICK fate \in Fates : Became(TxOf(c), fate)
                              /\ Goto(c, IF fate = "failed" THEN "threw" ELSE fate)
    BY <1>7 DEF Read
  <2>2. ledger' = ledger /\ calls[c].pc \in OpenPcs
    BY <1>7 DEF Read, OpenPcs, Polling
  <2>3. PICK told \in EndPcs : Goto(c, told) /\ (told \in {"paid", "refused"} => Became(TxOf(c), told))
    BY <2>1 DEF Fates, EndPcs
  <2>4. QED
    BY <2>2, <2>3, EndIsAnswer
<1>8. ASSUME NEW tx \in pool, NEW fate \in Fates, Apply(tx, fate)
      PROVE  [Outcome!Next]_<<Told, Taken>>
  BY <1>8, ApplyIsTake
<1>9. ASSUME Tick \/ UNCHANGED submissionVars
      PROVE  UNCHANGED <<Told, Taken>>
  BY <1>9 DEF Tick, submissionVars, Told, Taken, Became, TxOf
<1>10. \A c \in Calls : \A told \in EndPcs : Outcome!Answer(c, told) => Outcome!Next
  BY DEF Outcome!Next, Outcome!Answers, EndPcs
<1>11. \A c \in Calls : Outcome!Begin(c) => Outcome!Next
  BY DEF Outcome!Next
<1>12. "threw" \in EndPcs /\ "timedOut" \in EndPcs
  BY DEF EndPcs
<1>13. ASSUME NEW c \in Calls, CallStep(c) \/ SendUnanswered(c) \/ Abort(c)
       PROVE  [Outcome!Next]_<<Told, Taken>>
  BY <1>2, <1>3, <1>4, <1>5, <1>6, <1>7, <1>10, <1>12, <1>13 DEF CallStep
<1>14. QED
  BY <1>1, <1>8, <1>9, <1>11, <1>13 DEF SubmissionNext

LEMMA FirstImplements == SubmissionInit => Outcome!Init
BY DEF SubmissionInit, Outcome!Init, Told, Taken, Became

\* Whatever the network does, a caller of invokeAsAdmin gets what InvocationOutcome
\* promises: a true answer, at most one payment, and none after a time-out.
THEOREM SubmissionImplementsOutcome == SubmissionSafety => ImplementsOutcome
BY FirstImplements, StepImplements, InvAtFirst, TypeAtFirst, TypeKept, InvKept, PTL
DEF SubmissionSafety, ImplementsOutcome, Outcome!Spec
=============================================================================
