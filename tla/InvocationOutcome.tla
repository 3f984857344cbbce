-------------------------- MODULE InvocationOutcome --------------------------
(***************************************************************************)
(* What a caller of invokeAsAdmin may rely on, without transactions,       *)
(* sequence numbers and polls: the money of a call moves at most once; an  *)
(* answer tells the truth about it; after an answer, a time-out included,  *)
(* it does not move any more.  A call that throws for another reason       *)
(* promises nothing: its money may still move.                             *)
(***************************************************************************)
CONSTANTS Calls

VARIABLES
  answer,   \* answer[c]: what the caller has been told
  taken     \* the calls whose money has moved

Answers == {"none", "open", "paid", "refused", "timedOut", "threw"}

Init ==
  /\ answer = [c \in Calls |-> "none"]
  /\ taken = {}

Begin(c) ==
  /\ answer[c] = "none"
  /\ answer' = [answer EXCEPT ![c] = "open"]
  /\ UNCHANGED taken

\* One transaction moves the money; calls that built the same transaction share it.
Take(moved) ==
  /\ moved # {} /\ moved \cap taken = {}
  /\ \A c \in moved : answer[c] \in {"open", "threw"}
  /\ taken' = taken \cup moved
  /\ UNCHANGED answer

Answer(c, told) ==
  /\ answer[c] = "open"
  /\ told = "paid" => c \in taken
  /\ told = "refused" => c \notin taken
  /\ answer' = [answer EXCEPT ![c] = told]
  /\ UNCHANGED taken

Next ==
  \/ \E c \in Calls : Begin(c) \/ \E told \in Answers \ {"none", "open"} : Answer(c, told)
  \/ \E moved \in SUBSET Calls : Take(moved)

Spec == Init /\ [][Next]_<<answer, taken>>
=============================================================================
