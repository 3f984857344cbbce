------------------------- MODULE BillingChargeProofs -------------------------
(***************************************************************************)
(* No period of a subscription is charged more than once, except for the   *)
(* things that failed (OverchargesNeedFaults), as long as only the         *)
(* scheduler bills and no period is rewritten.                             *)
(*                                                                         *)
(* A period is not guarded by anything that outlives a failure: a call     *)
(* charges the period its subscription is in when it starts, and does not  *)
(* look whether a call before it was charged.  What bounds the charges is  *)
(* the number of jobs.  Job ids are made of the subscription and the end   *)
(* of a period, so every period that begins brings one job; it may charge  *)
(* the subscription once, or move it on, and then it has had its chance.   *)
(* Only something that fails gives it another one.  The step that spends a *)
(* chance on a charge raises what was sent by one; the step that moves the *)
(* subscription on spends one and makes one, that of the new period.  So   *)
(* for every period e the charges sent and the chances of the jobs that    *)
(* could still charge e are counted together:                              *)
(*   - Chances: the jobs of s that may charge it at all,                   *)
(*   - Triers:  the jobs whose call works on e and has not charged it,     *)
(*   - Others:  all but those whose call has charged e and books it; they  *)
(*              may charge e while s is in e,                              *)
(*   - Coming:  the same, and the job of the period after e, which does    *)
(*              not exist before s is moved on.                            *)
(* Counted bounds each by the failures so far.  The bound on Coming is one *)
(* larger; it is what bounds Others when s is moved to a period that was   *)
(* known before.                                                           *)
(*                                                                         *)
(* Charges before a period's end (EarlyChargesNeedFaults) are bounded by   *)
(* the same chances, in the last part.                                     *)
(***************************************************************************)
EXTENDS BillingQueueProofs

\* Where a call may still charge, and where it books what was charged.
Trying == {"find", "create", "dispatch", "mock", "processing", "invoke"}
Booking == {"recordPaid", "advance", "advanceOnly"}

JobOf(s, k) == jobs[<<s, k>>]
Absent(s, k) == JobOf(s, k).state = "absent"
Runs(s, k, pcs) == JobOf(s, k).state = "active" /\ cycles[JobOf(s, k).by].pc \in pcs
Tries(s, k, e) == Runs(s, k, Trying) /\ End(JobOf(s, k).by) = e
Records(s, k, e) == Runs(s, k, Booking) /\ End(JobOf(s, k).by) = e

\* Period k of s has begun, and something still knows of it.
Known(s, k) ==
  \/ subs[s].end = k
  \/ payments[s][k] # "NONE"
  \/ \E c \in Cycles : cycles[c].pc \in OpenPcs /\ Sub(c) = s /\ End(c) = k
  \/ \E t \in Sweepers : <<s, k>> \in ticks[t].todo

\* The job named after period k, there or still to be added, may charge s or move it on.
Chance(s, k) ==
  \/ Absent(s, k) /\ Known(s, k)
  \/ JobOf(s, k).state \in {"waiting", "stalled"}
  \/ Runs(s, k, Trying \cup Booking \cup {"threw"})

Chances(s) == {k \in Dates : Chance(s, k)}
Others(s, e) == {k \in Dates : Chance(s, k) /\ ~Records(s, k, e)}
Coming(s, e) ==
  {k \in Dates : (Chance(s, k) /\ ~Records(s, k, e)) \/ (Absent(s, k) /\ k = NextPeriod(e))}
Triers(s, e) == {k \in Dates : Tries(s, k, e)}

Counted(s) ==
  /\ Cardinality(Chances(s)) <= 1 + faults
  /\ \A e \in Dates :
       /\ Sent(s, e) + Cardinality(Triers(s, e)) <= 1 + faults
       /\ subs[s].end = e => Sent(s, e) + Cardinality(Others(s, e)) <= 1 + faults
       /\ Sent(s, e) + Cardinality(Coming(s, e)) <= 2 + faults

\* A job is named after the subscription it bills.
JobsNamed == \A s \in Subs, k \in Dates : ~Absent(s, k) => JobOf(s, k).sub = s

\* Every call works for a job.
CallsHaveJobs ==
  \A c \in Cycles : ~At(c, "idle") =>
    /\ Sub(c) \in Subs
    /\ \E k \in Dates : JobOf(Sub(c), k).state = "active" /\ JobOf(Sub(c), k).by = c

\* Before a subscription is made nothing knows of it.
NothingYet ==
  \A s \in Subs, k \in Dates : ~Exists(s) =>
    /\ Absent(s, k) /\ payments[s][k] = "NONE"
    /\ \A t \in Sweepers : <<s, k>> \notin ticks[t].todo

CountInv == JobsNamed /\ CallsHaveJobs /\ NothingYet /\ \A s \in Subs : Counted(s)

-----------------------------------------------------------------------------
(* Sizes of sets of periods.                                               *)

LEMMA DatesFinite ==
  ASSUME NEW A, A \subseteq Dates
  PROVE  IsFiniteSet(A) /\ Cardinality(A) \in Nat
<1>1. IsFiniteSet(Dates)
  <2>1. 0 \in Int /\ MaxDate \in Int
    BY TablesAssumption, SMT
  <2>. QED
    BY <2>1, FS_Interval DEF Dates
<1>. QED
  BY <1>1, FS_Subset, FS_CardinalityType

LEMMA SmallerSet ==
  ASSUME NEW A, NEW B, IsFiniteSet(B), A \subseteq B
  PROVE  Cardinality(A) <= Cardinality(B)
BY FS_Subset, Zenon

LEMMA NoMore ==
  ASSUME NEW A, NEW B, B \subseteq Dates, A \subseteq B
  PROVE  Cardinality(A) \in Nat /\ Cardinality(B) \in Nat /\ Cardinality(A) <= Cardinality(B)
<1>1. IsFiniteSet(B) /\ Cardinality(B) \in Nat
  BY DatesFinite
<1>2. Cardinality(A) \in Nat
  <2>1. A \subseteq Dates
    OBVIOUS
  <2>. QED
    BY <2>1, DatesFinite
<1>4. Cardinality(A) <= Cardinality(B)
  BY <1>1, SmallerSet
<1>. QED
  BY <1>1, <1>2, <1>4

LEMMA OneMoreAtMost ==
  ASSUME NEW A, NEW B, B \subseteq Dates, NEW k, A \subseteq Dates, A \subseteq B \cup {k}
  PROVE  /\ Cardinality(A) \in Nat /\ Cardinality(B) \in Nat
         /\ Cardinality(A) <= Cardinality(B) + 1
<1>1. IsFiniteSet(B) /\ Cardinality(A) \in Nat /\ Cardinality(B) \in Nat
  BY DatesFinite
<1>2. IsFiniteSet(B \cup {k})
      /\ Cardinality(B \cup {k}) \in {Cardinality(B), Cardinality(B) + 1}
  BY <1>1, FS_AddElement, Zenon
<1>3. Cardinality(A) <= Cardinality(B \cup {k})
  BY <1>2, SmallerSet
<1>. QED
  BY <1>1, <1>2, <1>3, SMT

LEMMA OneLess ==
  ASSUME NEW A, NEW B, B \subseteq Dates, NEW k \in B, A \subseteq B \ {k}
  PROVE  /\ Cardinality(A) \in Nat /\ Cardinality(B) \in Nat
         /\ Cardinality(A) + 1 <= Cardinality(B)
<1>1. IsFiniteSet(B) /\ Cardinality(A) \in Nat /\ Cardinality(B) \in Nat
  BY DatesFinite
<1>2. IsFiniteSet(B \ {k}) /\ Cardinality(B \ {k}) = Cardinality(B) - 1
  BY <1>1, FS_RemoveElement
<1>3. Cardinality(B \ {k}) \in Nat /\ Cardinality(A) <= Cardinality(B \ {k})
  BY <1>2, FS_Subset, FS_CardinalityType
<1>. QED
  BY <1>1, <1>2, <1>3, SMT

LEMMA OneForAnother ==
  ASSUME NEW A, NEW B, B \subseteq Dates, NEW k \in B, NEW z, A \subseteq Dates,
         A \subseteq (B \ {k}) \cup {z}
  PROVE  /\ Cardinality(A) \in Nat /\ Cardinality(B) \in Nat
         /\ Cardinality(A) <= Cardinality(B)
<1>. DEFINE C == B \ {k}
<1>1. C \subseteq Dates /\ C \subseteq B \ {k} /\ A \subseteq C \cup {z}
  OBVIOUS
<1>. HIDE DEF C
<1>2. Cardinality(C) \in Nat /\ Cardinality(B) \in Nat /\ Cardinality(C) + 1 <= Cardinality(B)
  BY <1>1, OneLess
<1>3. Cardinality(A) \in Nat /\ Cardinality(A) <= Cardinality(C) + 1
  BY <1>1, OneMoreAtMost
<1>. QED
  BY <1>2, <1>3, SMT

-----------------------------------------------------------------------------
(* What a step may do to the chances of one subscription.                  *)

\* Period k's job can do no more than before.
NoMoreChance(s, k) ==
  /\ Chance(s, k)' => Chance(s, k)
  /\ \A e \in Dates : Chance(s, k)' /\ ~Records(s, k, e)' => ~Records(s, k, e)
  /\ \A e \in Dates : Tries(s, k, e)' => Tries(s, k, e) \/ subs'[s].end = e
  /\ Absent(s, k)' => Absent(s, k)

\* The triers of the current period are among those whose chance it is: the bound on
\* them needs showing only for the other periods.
LEMMA CountsHold ==
  ASSUME NEW s \in Subs, faults' \in Nat,
         Cardinality(Chances(s)') <= 1 + faults',
         \A e \in Dates :
           /\ Sent(s, e)' \in Nat
           /\ subs'[s].end # e => Sent(s, e)' + Cardinality(Triers(s, e)') <= 1 + faults'
           /\ subs'[s].end = e => Sent(s, e)' + Cardinality(Others(s, e)') <= 1 + faults'
           /\ Sent(s, e)' + Cardinality(Coming(s, e)') <= 2 + faults'
  PROVE  Counted(s)'
<1>1. ASSUME NEW e \in Dates, subs'[s].end = e
      PROVE  Sent(s, e)' + Cardinality(Triers(s, e)') <= 1 + faults'
  <2>1. Triers(s, e)' \subseteq Others(s, e)' /\ Others(s, e)' \subseteq Dates
    BY DEF Others, Triers, Chance, Tries, Records, Runs, Trying, Booking
  <2>2. /\ Cardinality(Triers(s, e)') \in Nat /\ Cardinality(Others(s, e)') \in Nat
        /\ Cardinality(Triers(s, e)') <= Cardinality(Others(s, e)')
    BY <2>1, NoMore
  <2>. QED
    BY <1>1, <2>2, SMT
<1>. QED
  BY <1>1 DEF Counted

\* A step in which no job can do more.  The counts grow by what was sent, and that only
\* as things fail.
LEMMA CountsKept ==
  ASSUME NEW s \in Subs, Counted(s),
         faults \in Nat, faults' \in Nat, faults' >= faults,
         UNCHANGED subs[s].end,
         \A k \in Dates : NoMoreChance(s, k),
         \A e \in Dates : Sent(s, e) \in Nat /\ Sent(s, e)' \in Nat,
         \A e \in Dates : Sent(s, e)' + faults <= Sent(s, e) + faults'
  PROVE  Counted(s)'
<1>1. Cardinality(Chances(s)') <= 1 + faults'
  <2>1. Chances(s)' \subseteq Chances(s) /\ Chances(s) \subseteq Dates
    BY DEF Chances, NoMoreChance
  <2>2. /\ Cardinality(Chances(s)') \in Nat /\ Cardinality(Chances(s)) \in Nat
        /\ Cardinality(Chances(s)') <= Cardinality(Chances(s))
    BY <2>1, NoMore
  <2>. QED
    BY <2>2, SMT DEF Counted
<1>2. ASSUME NEW e \in Dates, NEW A, NEW B, NEW n \in Nat, A \subseteq B, B \subseteq Dates,
             Sent(s, e) + Cardinality(B) <= n + faults
      PROVE  Sent(s, e)' + Cardinality(A) <= n + faults'
  <2>1. Cardinality(A) \in Nat /\ Cardinality(B) \in Nat /\ Cardinality(A) <= Cardinality(B)
    BY <1>2, NoMore
  <2>. QED
    BY <1>2, <2>1, SMT
<1>3. ASSUME NEW e \in Dates
      PROVE  /\ Sent(s, e)' \in Nat
             /\ subs'[s].end # e => Sent(s, e)' + Cardinality(Triers(s, e)') <= 1 + faults'
             /\ subs'[s].end = e => Sent(s, e)' + Cardinality(Others(s, e)') <= 1 + faults'
             /\ Sent(s, e)' + Cardinality(Coming(s, e)') <= 2 + faults'
  <2>1. /\ Others(s, e)' \subseteq Others(s, e) /\ Others(s, e) \subseteq Dates
        /\ Coming(s, e)' \subseteq Coming(s, e) /\ Coming(s, e) \subseteq Dates
    BY DEF Others, Coming, NoMoreChance, NextPeriod
  <2>2. /\ subs'[s].end # e => Triers(s, e)' \subseteq Triers(s, e)
        /\ Triers(s, e) \subseteq Dates
    BY DEF Triers, NoMoreChance
  <2>3. /\ Sent(s, e) + Cardinality(Triers(s, e)) <= 1 + faults
        /\ subs[s].end = e => Sent(s, e) + Cardinality(Others(s, e)) <= 1 + faults
        /\ Sent(s, e) + Cardinality(Coming(s, e)) <= 2 + faults
    BY DEF Counted
  <2>. QED
    BY <1>2, <2>1, <2>2, <2>3
<1>. QED
  BY <1>1, <1>3, CountsHold

\* One thing fails, and with it one job can be tried again.
LEMMA CountsFail ==
  ASSUME NEW s \in Subs, Counted(s),
         faults \in Nat, faults' = faults + 1,
         UNCHANGED subs[s].end,
         NEW j \in Dates, \A k \in Dates \ {j} : NoMoreChance(s, k),
         \A e \in Dates : Tries(s, j, e)' => Tries(s, j, e),
         \A e \in Dates : Sent(s, e) \in Nat /\ Sent(s, e)' \in Nat /\ Sent(s, e)' <= Sent(s, e)
  PROVE  Counted(s)'
<1>1. Cardinality(Chances(s)') <= 1 + faults'
  <2>1. /\ Chances(s)' \subseteq Chances(s) \cup {j} /\ Chances(s) \subseteq Dates
        /\ Chances(s)' \subseteq Dates
    BY DEF Chances, NoMoreChance
  <2>2. /\ Cardinality(Chances(s)') \in Nat /\ Cardinality(Chances(s)) \in Nat
        /\ Cardinality(Chances(s)') <= Cardinality(Chances(s)) + 1
    BY <2>1, OneMoreAtMost
  <2>. QED
    BY <2>2, SMT DEF Counted
<1>2. ASSUME NEW e \in Dates, NEW A, NEW B, NEW n \in Nat, A \subseteq B \cup {j},
             A \subseteq Dates, B \subseteq Dates, Sent(s, e) + Cardinality(B) <= n + faults
      PROVE  Sent(s, e)' + Cardinality(A) <= n + faults'
  <2>1. Cardinality(A) \in Nat /\ Cardinality(B) \in Nat /\ Cardinality(A) <= Cardinality(B) + 1
    BY <1>2, OneMoreAtMost
  <2>. QED
    BY <1>2, <2>1, SMT
<1>3. ASSUME NEW e \in Dates
      PROVE  /\ Sent(s, e)' \in Nat
             /\ subs'[s].end # e => Sent(s, e)' + Cardinality(Triers(s, e)') <= 1 + faults'
             /\ subs'[s].end = e => Sent(s, e)' + Cardinality(Others(s, e)') <= 1 + faults'
             /\ Sent(s, e)' + Cardinality(Coming(s, e)') <= 2 + faults'
  <2>1. /\ Others(s, e)' \subseteq Others(s, e) \cup {j}
        /\ Others(s, e)' \subseteq Dates /\ Others(s, e) \subseteq Dates
        /\ Coming(s, e)' \subseteq Coming(s, e) \cup {j}
        /\ Coming(s, e)' \subseteq Dates /\ Coming(s, e) \subseteq Dates
    BY DEF Others, Coming, NoMoreChance, NextPeriod
  <2>2. /\ subs'[s].end # e => Triers(s, e)' \subseteq Triers(s, e) \cup {j}
        /\ Triers(s, e)' \subseteq Dates /\ Triers(s, e) \subseteq Dates
    BY DEF Triers, NoMoreChance
  <2>3. /\ Sent(s, e) + Cardinality(Triers(s, e)) <= 1 + faults
        /\ subs[s].end = e => Sent(s, e) + Cardinality(Others(s, e)) <= 1 + faults
        /\ Sent(s, e) + Cardinality(Coming(s, e)) <= 2 + faults
    BY DEF Counted
  <2>. QED
    BY <1>2, <2>1, <2>2, <2>3
<1>. QED
  BY <1>1, <1>3, CountsHold

\* A call sends its charge: its job has had its chance at that period.
LEMMA CountsCharge ==
  ASSUME NEW s \in Subs, Counted(s), faults \in Nat, faults' = faults,
         UNCHANGED subs[s].end,
         \A k \in Dates : NoMoreChance(s, k),
         NEW d \in Dates, NEW j \in Dates, Tries(s, j, d), ~Tries(s, j, d)', Records(s, j, d)',
         \A e \in Dates : Sent(s, e) \in Nat /\ Sent(s, e)' \in Nat,
         \A e \in Dates \ {d} : Sent(s, e)' = Sent(s, e),
         Sent(s, d)' = Sent(s, d) + 1
  PROVE  Counted(s)'
<1>1. Cardinality(Chances(s)') <= 1 + faults'
  <2>1. Chances(s)' \subseteq Chances(s) /\ Chances(s) \subseteq Dates
    BY DEF Chances, NoMoreChance
  <2>2. /\ Cardinality(Chances(s)') \in Nat /\ Cardinality(Chances(s)) \in Nat
        /\ Cardinality(Chances(s)') <= Cardinality(Chances(s))
    BY <2>1, NoMore
  <2>. QED
    BY <2>2, SMT DEF Counted
<1>2. ASSUME NEW e \in Dates, NEW A, NEW B, NEW n \in Nat, A \subseteq B, B \subseteq Dates,
             e = d => j \in B /\ j \notin A, Sent(s, e) + Cardinality(B) <= n + faults
      PROVE  Sent(s, e)' + Cardinality(A) <= n + faults'
  <2>1. CASE e = d
    <3>1. j \in B /\ A \subseteq B \ {j}
      BY <1>2, <2>1
    <3>2. Cardinality(A) \in Nat /\ Cardinality(B) \in Nat /\ Cardinality(A) + 1 <= Cardinality(B)
      BY <1>2, <3>1, OneLess
    <3>. QED
      BY <1>2, <2>1, <3>2, SMT
  <2>2. CASE e # d
    <3>1. Cardinality(A) \in Nat /\ Cardinality(B) \in Nat /\ Cardinality(A) <= Cardinality(B)
      BY <1>2, NoMore
    <3>. QED
      BY <1>2, <2>2, <3>1, SMT
  <2>. QED
    BY <2>1, <2>2
<1>3. ASSUME NEW e \in Dates
      PROVE  /\ Sent(s, e)' \in Nat
             /\ subs'[s].end # e => Sent(s, e)' + Cardinality(Triers(s, e)') <= 1 + faults'
             /\ subs'[s].end = e => Sent(s, e)' + Cardinality(Others(s, e)') <= 1 + faults'
             /\ Sent(s, e)' + Cardinality(Coming(s, e)') <= 2 + faults'
  <2>1. /\ Others(s, e)' \subseteq Others(s, e) /\ Others(s, e) \subseteq Dates
        /\ Coming(s, e)' \subseteq Coming(s, e) /\ Coming(s, e) \subseteq Dates
    BY DEF Others, Coming, NoMoreChance, NextPeriod
  <2>2. /\ subs'[s].end # e => Triers(s, e)' \subseteq Triers(s, e)
        /\ Triers(s, e) \subseteq Dates
    BY DEF Triers, NoMoreChance
  <2>3. /\ j \in Others(s, d) /\ j \notin Others(s, d)'
        /\ j \in Triers(s, d) /\ j \notin Triers(s, d)'
    BY DEF Others, Triers, Chance, Tries, Records, Runs, Trying, Booking
  <2>4. j \in Coming(s, d) /\ j \notin Coming(s, d)'
    BY DEF Coming, Chance, Tries, Records, Runs, Trying, Booking, Absent
  <2>5. /\ Sent(s, e) + Cardinality(Triers(s, e)) <= 1 + faults
        /\ subs[s].end = e => Sent(s, e) + Cardinality(Others(s, e)) <= 1 + faults
        /\ Sent(s, e) + Cardinality(Coming(s, e)) <= 2 + faults
    BY DEF Counted
  <2>6. Sent(s, e)' + Cardinality(Coming(s, e)') <= 2 + faults'
    BY <1>2, <2>1, <2>4, <2>5
  <2>7. subs'[s].end = e => Sent(s, e)' + Cardinality(Others(s, e)') <= 1 + faults'
    BY <1>2, <2>1, <2>3, <2>5
  <2>8. subs'[s].end # e => Sent(s, e)' + Cardinality(Triers(s, e)') <= 1 + faults'
    BY <1>2, <2>2, <2>3, <2>5
  <2>. QED
    BY <2>6, <2>7, <2>8
<1>. QED
  BY <1>1, <1>3, CountsHold

\* A call moves s on from period d: its job has had its chance at s.  The period it
\* moves to may bring a chance of its own, unless it was known and counted before.
LEMMA CountsAdvance ==
  ASSUME NEW s \in Subs, Counted(s), faults \in Nat, faults' = faults,
         NEW d \in Dates, NEW z \in Dates, z = NextPeriod(d), z # d, subs'[s].end = z,
         NEW j \in Dates, Records(s, j, d), ~Chance(s, j)',
         \A k \in Dates \ {z} : Chance(s, k)' => Chance(s, k),
         Chance(s, z)' => Chance(s, z) \/ Absent(s, z),
         \A k \in Dates \ {j}, e \in Dates : ~Records(s, k, e)' => ~Records(s, k, e),
         \A k \in Dates, e \in Dates : Tries(s, k, e)' => Tries(s, k, e),
         \A k \in Dates : Absent(s, k)' => Absent(s, k),
         \A e \in Dates : Sent(s, e) \in Nat /\ Sent(s, e)' = Sent(s, e),
         ~Known(s, z) => Sent(s, z) = 0 /\ \A k \in Dates : ~Records(s, k, z)
  PROVE  Counted(s)'
<1>b. \A e \in Dates : Records(s, j, e) => e = d
  BY DEF Records
<1>c. Chance(s, j) /\ ~Absent(s, j)
  BY DEF Records, Chance, Runs, Booking, Absent
<1>1. Cardinality(Chances(s)') <= 1 + faults'
  <2>1. /\ Chances(s)' \subseteq (Chances(s) \ {j}) \cup {z} /\ Chances(s) \subseteq Dates
        /\ Chances(s)' \subseteq Dates /\ j \in Chances(s)
    BY <1>c DEF Chances
  <2>2. /\ Cardinality(Chances(s)') \in Nat /\ Cardinality(Chances(s)) \in Nat
        /\ Cardinality(Chances(s)') <= Cardinality(Chances(s))
    BY <2>1, OneForAnother
  <2>. QED
    BY <2>2, SMT DEF Counted
<1>2. ASSUME NEW e \in Dates
      PROVE  Sent(s, e)' + Cardinality(Coming(s, e)') <= 2 + faults'
  <2>1. Cardinality(Coming(s, e)') \in Nat /\ Cardinality(Coming(s, e)) \in Nat
        /\ Cardinality(Coming(s, e)') <= Cardinality(Coming(s, e))
    <3>1. CASE e = d
      <4>1. Coming(s, e)' \subseteq Coming(s, e) /\ Coming(s, e) \subseteq Dates
        <5> SUFFICES ASSUME NEW k \in Dates,
                            (Chance(s, k)' /\ ~Records(s, k, d)') \/ (Absent(s, k)' /\ k = z)
                     PROVE  (Chance(s, k) /\ ~Records(s, k, d)) \/ (Absent(s, k) /\ k = z)
          BY <3>1 DEF Coming, NextPeriod
        <5>. QED
          OBVIOUS
      <4>. QED
        BY <4>1, NoMore
    <3>2. CASE e # d
      <4>1. j \in Coming(s, e)
        BY <1>b, <1>c, <3>2 DEF Coming
      <4>2. /\ Coming(s, e)' \subseteq (Coming(s, e) \ {j}) \cup {z}
            /\ Coming(s, e)' \subseteq Dates /\ Coming(s, e) \subseteq Dates
        <5> SUFFICES ASSUME NEW k \in Dates, k # z,
                            (Chance(s, k)' /\ ~Records(s, k, e)')
                              \/ (Absent(s, k)' /\ k = NextPeriod(e))
                     PROVE  /\ (Chance(s, k) /\ ~Records(s, k, e))
                                 \/ (Absent(s, k) /\ k = NextPeriod(e))
                            /\ k # j
          BY DEF Coming, NextPeriod
        <5>. QED
          BY <1>c
      <4>. QED
        BY <4>1, <4>2, OneForAnother
    <3>. QED
      BY <3>1, <3>2
  <2>. QED
    BY <2>1, SMT DEF Counted
<1>3. ASSUME NEW e \in Dates
      PROVE  Sent(s, e)' + Cardinality(Triers(s, e)') <= 1 + faults'
  <2>1. Triers(s, e)' \subseteq Triers(s, e) /\ Triers(s, e) \subseteq Dates
    BY DEF Triers
  <2>2. /\ Cardinality(Triers(s, e)') \in Nat /\ Cardinality(Triers(s, e)) \in Nat
        /\ Cardinality(Triers(s, e)') <= Cardinality(Triers(s, e))
    BY <2>1, NoMore
  <2>. QED
    BY <2>2, SMT DEF Counted
<1>4. Sent(s, z)' + Cardinality(Others(s, z)') <= 1 + faults'
  <2>1. CASE Known(s, z) \/ ~Absent(s, z)
    <3>1. /\ Others(s, z)' \subseteq Coming(s, z) \ {j} /\ Coming(s, z) \subseteq Dates
          /\ j \in Coming(s, z)
      <4>1. Chance(s, z)' => Chance(s, z)
        BY <2>1 DEF Chance
      <4>2. \A k \in Dates : Chance(s, k)' /\ ~Records(s, k, z)' =>
              Chance(s, k) /\ ~Records(s, k, z) /\ k # j
        BY <4>1
      <4>. QED
        BY <1>b, <1>c, <4>2 DEF Others, Coming
    <3>2. /\ Cardinality(Others(s, z)') \in Nat /\ Cardinality(Coming(s, z)) \in Nat
          /\ Cardinality(Others(s, z)') + 1 <= Cardinality(Coming(s, z))
      BY <3>1, OneLess
    <3>. QED
      BY <3>2, SMT DEF Counted
  <2>2. CASE ~Known(s, z)
    <3>1. Others(s, z)' \subseteq Chances(s)' /\ Chances(s)' \subseteq Dates
      BY DEF Others, Chances
    <3>2. /\ Cardinality(Others(s, z)') \in Nat /\ Cardinality(Chances(s)') \in Nat
          /\ Cardinality(Others(s, z)') <= Cardinality(Chances(s)')
      BY <3>1, NoMore
    <3>. QED
      BY <1>1, <2>2, <3>2, SMT
  <2>. QED
    BY <2>1, <2>2
<1>. QED
  BY <1>1, <1>2, <1>3, <1>4, CountsHold

\* The first period of s begins: one chance, for a subscription nothing knew of.
LEMMA CountsBegin ==
  ASSUME NEW s \in Subs, faults' \in Nat, NEW z \in Dates, subs'[s].end = z,
         \A k \in Dates : Chance(s, k)' => k = z,
         \A k \in Dates, e \in Dates : ~Tries(s, k, e)',
         \A e \in Dates : Sent(s, e)' = 0
  PROVE  Counted(s)'
<1>1. ASSUME NEW A, A \subseteq {z}
      PROVE  Cardinality(A) \in Nat /\ Cardinality(A) <= 1
  <2>1. {z} \subseteq Dates /\ Cardinality({z}) = 1
    BY FS_Singleton
  <2>2. Cardinality(A) \in Nat /\ Cardinality(A) <= Cardinality({z})
    BY <1>1, <2>1, NoMore
  <2>. QED
    BY <2>1, <2>2
<1>2. Cardinality(Chances(s)') <= 1 + faults'
  <2>1. Chances(s)' \subseteq {z}
    BY DEF Chances
  <2>. QED
    BY <1>1, <2>1, SMT
<1>3. ASSUME NEW e \in Dates
      PROVE  /\ Cardinality(Triers(s, e)') <= 1 + faults'
             /\ Cardinality(Others(s, e)') <= 1 + faults'
             /\ Cardinality(Coming(s, e)') <= 2 + faults'
  <2>1. Triers(s, e)' \subseteq {z} /\ Others(s, e)' \subseteq {z}
    BY DEF Triers, Others
  <2>2. Coming(s, e)' \subseteq {z} \cup {NextPeriod(e)} /\ Coming(s, e)' \subseteq Dates
    BY DEF Coming, NextPeriod
  <2>3. {z} \subseteq Dates
    OBVIOUS
  <2>4. /\ Cardinality(Coming(s, e)') \in Nat /\ Cardinality({z}) \in Nat
        /\ Cardinality(Coming(s, e)') <= Cardinality({z}) + 1
    BY <2>2, <2>3, OneMoreAtMost
  <2>. QED
    BY <1>1, <2>1, <2>4, SMT
<1>4. \A e \in Dates :
        /\ Sent(s, e)' \in Nat
        /\ Sent(s, e)' + Cardinality(Triers(s, e)') <= 1 + faults'
        /\ Sent(s, e)' + Cardinality(Others(s, e)') <= 1 + faults'
        /\ Sent(s, e)' + Cardinality(Coming(s, e)') <= 2 + faults'
  <2> SUFFICES ASSUME NEW e \in Dates
               PROVE  /\ Sent(s, e)' \in Nat
                      /\ Sent(s, e)' + Cardinality(Triers(s, e)') <= 1 + faults'
                      /\ Sent(s, e)' + Cardinality(Others(s, e)') <= 1 + faults'
                      /\ Sent(s, e)' + Cardinality(Coming(s, e)') <= 2 + faults'
    OBVIOUS
  <2>1. /\ Triers(s, e)' \subseteq Dates /\ Others(s, e)' \subseteq Dates
        /\ Coming(s, e)' \subseteq Dates
    BY DEF Triers, Others, Coming
  <2>2. /\ Cardinality(Triers(s, e)') \in Nat /\ Cardinality(Others(s, e)') \in Nat
        /\ Cardinality(Coming(s, e)') \in Nat
    BY <2>1, DatesFinite
  <2>3. Sent(s, e)' = 0
    OBVIOUS
  <2>. QED
    BY <1>3, <2>2, <2>3, SMT
<1>. QED
  BY <1>2, <1>4, CountsHold

-----------------------------------------------------------------------------
(* What the jobs and the calls have to do with it.                         *)

LEMMA SentTypes ==
  ASSUME ServiceInv'
  PROVE  faults' \in Nat /\ \A s \in Subs, e \in Dates : Sent(s, e)' \in Nat
<1>1. /\ charges' \in [Subs -> [Dates -> Nat]] /\ adrift' \in [Subs -> [Dates -> Nat]]
      /\ faults' \in Nat
  BY DEF ServiceInv, ServiceTypeOK, TypeOK, TablesTypeOK, CycleTypeOK
<1>2. \A s \in Subs, e \in Dates : charges'[s][e] \in Nat /\ adrift'[s][e] \in Nat
  BY <1>1
<1>. QED
  BY <1>1, <1>2, SMT DEF Sent

\* The call of an active job works on the job's subscription, and for no other job.
LEMMA OwnCall ==
  ASSUME ServiceInv, JobsNamed, NEW s \in Subs, NEW k \in Dates, JobOf(s, k).state = "active"
  PROVE  /\ JobOf(s, k).by \in Cycles /\ cycles[JobOf(s, k).by].pc # "idle"
         /\ Sub(JobOf(s, k).by) = s
         /\ \A x \in Subs, d \in Dates : JobOf(x, d).by = JobOf(s, k).by => x = s /\ d = k
<1>1. <<s, k>> \in JobIds /\ jobs[<<s, k>>].state = "active" /\ jobs[<<s, k>>].sub = s
  BY DEF JobIds, Scheduled, JobOf, JobsNamed, Absent
<1>2. jobs[<<s, k>>].by \in Cycles
  BY <1>1, ActiveCall
<1>3. /\ cycles[jobs[<<s, k>>].by].pc # "idle" /\ Sub(jobs[<<s, k>>].by) = s
      /\ \A i \in JobIds \ {<<s, k>>} : jobs[i].by # jobs[<<s, k>>].by
  BY <1>1 DEF ServiceInv, JobsOwnCalls, At
<1>4. ASSUME NEW x \in Subs, NEW d \in Dates, jobs[<<x, d>>].by = jobs[<<s, k>>].by
      PROVE  x = s /\ d = k
  <2>1. <<x, d>> \in JobIds
    BY DEF JobIds, Scheduled
  <2>2. <<x, d>> = <<s, k>>
    BY <1>3, <1>4, <2>1
  <2>. QED
    BY <2>2
<1>. QED
  BY <1>2, <1>3, <1>4 DEF JobOf

\* The chance of a job that goes on from one place of its call to another.
Walk(from, to) ==
  /\ to \in Trying => from \in Trying
  /\ to \in Trying \cup Booking \cup {"threw"} => from \in Trying \cup Booking \cup {"threw"}
  /\ from \in Booking => to \in Booking \/ to \notin Trying \cup {"threw"}

LEMMA JobStands ==
  ASSUME NEW s \in Subs, NEW k \in Dates,
         JobOf(s, k)' = JobOf(s, k), Absent(s, k) /\ Known(s, k)' => Known(s, k),
         JobOf(s, k).state = "active" =>
           LET c == JobOf(s, k).by
           IN  Walk(cycles[c].pc, cycles'[c].pc) /\ cycles'[c].end = cycles[c].end
  PROVE  NoMoreChance(s, k)
<1>1. Absent(s, k)' <=> Absent(s, k)
  BY DEF Absent
<1>2. ASSUME NEW pcs, Runs(s, k, pcs)'
      PROVE  /\ JobOf(s, k).state = "active"
             /\ cycles'[JobOf(s, k).by].pc \in pcs
             /\ Walk(cycles[JobOf(s, k).by].pc, cycles'[JobOf(s, k).by].pc)
  BY <1>2 DEF Runs
<1>3. Runs(s, k, Trying \cup Booking \cup {"threw"})' =>
        Runs(s, k, Trying \cup Booking \cup {"threw"})
  <2> SUFFICES ASSUME Runs(s, k, Trying \cup Booking \cup {"threw"})'
               PROVE  Runs(s, k, Trying \cup Booking \cup {"threw"})
    OBVIOUS
  <2>. QED
    BY DEF Runs, Walk
<1>4. Chance(s, k)' => Chance(s, k)
  BY <1>1, <1>3 DEF Chance
<1>5. ASSUME NEW e \in Dates, Chance(s, k)', ~Records(s, k, e)' PROVE ~Records(s, k, e)
  <2> SUFFICES ASSUME Records(s, k, e) PROVE FALSE
    OBVIOUS
  <2>1. JobOf(s, k).state = "active" /\ cycles[JobOf(s, k).by].pc \in Booking
    BY DEF Records, Runs
  <2>2. cycles'[JobOf(s, k).by].pc \in Trying \cup Booking \cup {"threw"}
    BY <1>5, <2>1 DEF Chance, Runs, Absent
  <2>3. cycles'[JobOf(s, k).by].pc \in Booking
    BY <2>1, <2>2 DEF Walk
  <2>. QED
    BY <1>5, <2>1, <2>3 DEF Records, Runs, End
<1>6. ASSUME NEW e \in Dates, Tries(s, k, e)' PROVE Tries(s, k, e)
  BY <1>6 DEF Tries, Runs, Walk, End
<1>. QED
  BY <1>1, <1>4, <1>5, <1>6 DEF NoMoreChance

\* The counts of a subscription whose jobs can do no more.
LEMMA QuietCounts ==
  ASSUME ServiceInv, ServiceInv', CountInv, NEW s \in Subs, subs'[s].end = subs[s].end,
         faults' >= faults, \A k \in Dates : NoMoreChance(s, k),
         \A e \in Dates : Sent(s, e)' + faults <= Sent(s, e) + faults'
  PROVE  Counted(s)'
<1>1. faults \in Nat /\ \A e \in Dates : Sent(s, e) \in Nat
  BY QueueTypes
<1>2. faults' \in Nat /\ \A e \in Dates : Sent(s, e)' \in Nat
  BY SentTypes
<1>3. Counted(s)
  BY DEF CountInv
<1>. QED
  BY <1>1, <1>2, <1>3, CountsKept

\* Steps that leave the jobs alone.
LEMMA JobsStand ==
  ASSUME CountInv, UNCHANGED jobs,
         \A c \in Cycles : cycles'[c].pc # "idle" =>
           cycles[c].pc # "idle" /\ cycles'[c].sub = cycles[c].sub,
         \A s \in Subs : Exists(s) => Exists(s)',
         \A s \in Subs, e \in Dates : ~Exists(s) => payments'[s][e] = payments[s][e],
         \A t \in Sweepers : ticks'[t].todo \subseteq ticks[t].todo
  PROVE  JobsNamed' /\ CallsHaveJobs' /\ NothingYet'
<1>1. JobsNamed'
  BY DEF CountInv, JobsNamed, Absent, JobOf
<1>2. CallsHaveJobs'
  BY DEF CountInv, CallsHaveJobs, At, Sub, JobOf
<1>3. NothingYet'
  <2> SUFFICES ASSUME NEW s \in Subs, NEW k \in Dates, ~Exists(s)'
               PROVE  /\ jobs[<<s, k>>].state = "absent" /\ payments'[s][k] = "NONE"
                      /\ \A t \in Sweepers : <<s, k>> \notin ticks'[t].todo
    BY DEF NothingYet, Absent, JobOf
  <2>1. ~Exists(s)
    OBVIOUS
  <2>. QED
    BY <2>1 DEF CountInv, NothingYet, Absent, JobOf
<1>. QED
  BY <1>1, <1>2, <1>3

\* Steps that leave jobs and calls alone, while the periods stay.
LEMMA QuietStep ==
  ASSUME ServiceInv, ServiceInv', CountInv, UNCHANGED <<jobs, cycles, payments>>,
         \A s \in Subs : Exists(s) => Exists(s)',
         \A s \in Subs : subs'[s].end = subs[s].end,
         \A t \in Sweepers : ticks'[t].todo \subseteq ticks[t].todo,
         faults' >= faults, \A s \in Subs, e \in Dates : Sent(s, e)' <= Sent(s, e)
  PROVE  CountInv'
<1>1. JobsNamed' /\ CallsHaveJobs' /\ NothingYet'
  BY JobsStand
<1>2. ASSUME NEW s \in Subs PROVE Counted(s)'
  <2>1. ASSUME NEW k \in Dates PROVE NoMoreChance(s, k)
    <3>1. JobOf(s, k)' = JobOf(s, k)
      BY DEF JobOf
    <3>2. Known(s, k)' => Known(s, k)
      BY DEF Known, Sub, End
    <3>3. \A pc : Walk(pc, pc)
      BY DEF Walk
    <3>. QED
      BY <3>1, <3>2, <3>3, JobStands
  <2>2. ASSUME NEW e \in Dates PROVE Sent(s, e)' + faults <= Sent(s, e) + faults'
    <3>1. faults \in Nat /\ Sent(s, e) \in Nat
      BY QueueTypes
    <3>2. faults' \in Nat /\ Sent(s, e)' \in Nat
      BY SentTypes
    <3>. QED
      BY <3>1, <3>2, SMT
  <2>. QED
    BY <2>1, <2>2, QuietCounts
<1>. QED
  BY <1>1, <1>2 DEF CountInv

-----------------------------------------------------------------------------
(* One job changes.                                                        *)

LEMMA OneJobChanges ==
  ASSUME ServiceInv, CountInv, UNCHANGED <<subs, payments>>,
         NEW x \in Subs, NEW d \in Dates, NEW job,
         job.sub = x, job.state # "absent", Exists(x),
         JobOf(x, d)' = job,
         \A s \in Subs, k \in Dates : s # x \/ k # d => JobOf(s, k)' = JobOf(s, k),
         \A t \in Sweepers : ticks'[t].todo \subseteq ticks[t].todo,
         NEW c, \A b \in Cycles \ {c} : cycles'[b] = cycles[b],
         c \in Cycles =>
           \/ cycles'[c].pc = "idle"
           \/ /\ cycles'[c].sub = x /\ cycles'[c].end = subs[x].end
              /\ job.state = "active" /\ job.by = c,
         \A s \in Subs, k \in Dates : JobOf(s, k).state = "active" =>
           (JobOf(s, k).by = c <=> s = x /\ k = d)
  PROVE  /\ JobsNamed' /\ CallsHaveJobs' /\ NothingYet'
         /\ \A s \in Subs, k \in Dates : Known(s, k)' => Known(s, k)
         /\ \A s \in Subs, k \in Dates : s # x \/ k # d => NoMoreChance(s, k)
<1>1. JobsNamed'
  BY DEF CountInv, JobsNamed, Absent
<1>2. CallsHaveJobs'
  <2> SUFFICES ASSUME NEW b \in Cycles, cycles'[b].pc # "idle"
        PROVE  /\ cycles'[b].sub \in Subs
               /\ \E k \in Dates : /\ jobs'[<<cycles'[b].sub, k>>].state = "active"
                                   /\ jobs'[<<cycles'[b].sub, k>>].by = b
    BY DEF CallsHaveJobs, At, Sub, JobOf
  <2>1. CASE b = c
    <3>1. cycles'[b].sub = x /\ job.state = "active" /\ job.by = b
      BY <2>1
    <3>2. JobOf(x, d)' = job
      OBVIOUS
    <3>. QED
      BY <3>1, <3>2 DEF JobOf
  <2>2. CASE b # c
    <3>1. cycles'[b] = cycles[b]
      BY <2>2
    <3>2. PICK k \in Dates : JobOf(Sub(b), k).state = "active" /\ JobOf(Sub(b), k).by = b
      BY <3>1 DEF CountInv, CallsHaveJobs, At
    <3>3. Sub(b) \in Subs
      BY <3>1 DEF CountInv, CallsHaveJobs, At
    <3>4. PICK s \in Subs : s = Sub(b)
      BY <3>3
    <3>5. JobOf(s, k)' = JobOf(s, k)
      BY <2>2, <3>2, <3>4
    <3>. QED
      BY <3>1, <3>2, <3>4, <3>5 DEF Sub, JobOf
  <2>. QED
    BY <2>1, <2>2
<1>3. NothingYet'
  <2> SUFFICES ASSUME NEW s \in Subs, NEW k \in Dates, ~Exists(s)
               PROVE  /\ Absent(s, k)' /\ payments[s][k] = "NONE"
                      /\ \A t \in Sweepers : <<s, k>> \notin ticks'[t].todo
    BY DEF NothingYet, Exists
  <2>1. /\ Absent(s, k) /\ payments[s][k] = "NONE"
        /\ \A t \in Sweepers : <<s, k>> \notin ticks[t].todo
    BY DEF CountInv, NothingYet
  <2>2. JobOf(s, k)' = JobOf(s, k)
    OBVIOUS
  <2>. QED
    BY <2>1, <2>2 DEF Absent
<1>4. ASSUME NEW s \in Subs, NEW k \in Dates, Known(s, k)' PROVE Known(s, k)
  <2>1. ASSUME NEW b \in Cycles, cycles'[b].pc \in OpenPcs, cycles'[b].sub = s, cycles'[b].end = k
        PROVE  Known(s, k)
    <3>1. CASE b = c
      BY <2>1, <3>1 DEF Known, OpenPcs, LivePcs
    <3>2. CASE b # c
      BY <2>1, <3>2 DEF Known, Sub, End
    <3>. QED
      BY <3>1, <3>2
  <2>2. CASE subs'[s].end = k \/ payments'[s][k] # "NONE"
    BY <2>2 DEF Known
  <2>3. CASE \E t \in Sweepers : <<s, k>> \in ticks'[t].todo
    BY <2>3 DEF Known
  <2>. QED
    BY <1>4, <2>1, <2>2, <2>3 DEF Known, Sub, End
<1>5. ASSUME NEW s \in Subs, NEW k \in Dates, s # x \/ k # d PROVE NoMoreChance(s, k)
  <2>1. JobOf(s, k)' = JobOf(s, k)
    BY <1>5
  <2>2. \A pc : Walk(pc, pc)
    BY DEF Walk
  <2>3. JobOf(s, k).state = "active" => JobOf(s, k).by \in Cycles \ {c}
    BY <1>5, OwnCall DEF CountInv
  <2>. QED
    BY <1>4, <2>1, <2>2, <2>3, JobStands
<1>. QED
  BY <1>1, <1>2, <1>3, <1>4, <1>5

LEMMA JobUpdated ==
  ASSUME ServiceInv, NEW x \in Subs, NEW d \in Dates, NEW job,
         jobs' = [jobs EXCEPT ![<<x, d>>] = job]
  PROVE  /\ JobOf(x, d)' = job
         /\ \A s \in Subs, k \in Dates : s # x \/ k # d => JobOf(s, k)' = JobOf(s, k)
<1>1. jobs'[<<x, d>>] = job /\ \A j \in JobIds \ {<<x, d>>} : jobs'[j] = jobs[j]
  BY DEF ServiceInv, ServiceTypeOK, JobIds, Scheduled
<1>2. ASSUME NEW s \in Subs, NEW k \in Dates, s # x \/ k # d
      PROVE  JobOf(s, k)' = JobOf(s, k)
  BY <1>1, <1>2 DEF JobOf, JobIds, Scheduled
<1>. QED
  BY <1>1, <1>2 DEF JobOf

\* A job that has no call can do what it could before it had none.
LEMMA JobRests ==
  ASSUME NEW s \in Subs, NEW k \in Dates,
         JobOf(s, k)'.state \in {"waiting", "stalled", "completed", "failed"},
         JobOf(s, k)'.state \in {"waiting", "stalled"} => Chance(s, k),
         \A e \in Dates : ~Records(s, k, e)
  PROVE  NoMoreChance(s, k)
BY DEF NoMoreChance, Chance, Tries, Runs, Absent

\* Rows, money and clock stay, and no job can do more.
LEMMA JobsQuiet ==
  ASSUME ServiceInv, ServiceInv', CountInv, UNCHANGED <<subs, charges, adrift, faults>>,
         JobsNamed', CallsHaveJobs', NothingYet',
         \A s \in Subs, k \in Dates : NoMoreChance(s, k)
  PROVE  CountInv'
<1>1. ASSUME NEW s \in Subs PROVE Counted(s)'
  <2>1. ASSUME NEW e \in Dates PROVE Sent(s, e)' + faults <= Sent(s, e) + faults'
    <3>1. faults \in Nat /\ Sent(s, e) \in Nat
      BY QueueTypes
    <3>2. Sent(s, e)' = Sent(s, e)
      BY DEF Sent
    <3>. QED
      BY <3>1, <3>2, SMT
  <2>2. faults' >= faults
    BY QueueTypes, SMT
  <2>. QED
    BY <2>1, <2>2, QuietCounts
<1>. QED
  BY <1>1 DEF CountInv

LEMMA AddCounts ==
  ASSUME ServiceInv, ServiceInv', CountInv, NEW t \in Sweepers, AddJob(t)
  PROVE  CountInv'
<1>1. UNCHANGED <<subs, payments, charges, adrift, now, faults, cycles>>
  BY DEF AddJob, vars
<1>2. PICK j \in ticks[t].todo :
        /\ ticks' = [ticks EXCEPT ![t].todo = @ \ {j}]
        /\ jobs' = IF jobs[j] = NoJob THEN [jobs EXCEPT ![j] = NewJob(j[1])] ELSE jobs
  BY DEF AddJob
<1>3. PICK x \in Subs, d \in Dates : j = <<x, d>>
  BY DEF ServiceInv, ServiceTypeOK, Scheduled
<1>4. \A u \in Sweepers : ticks'[u].todo \subseteq ticks[u].todo
  BY <1>2 DEF ServiceInv, ServiceTypeOK
<1>5. CASE UNCHANGED jobs
  <2>1. faults' >= faults /\ \A s \in Subs, e \in Dates : Sent(s, e)' <= Sent(s, e)
    <3>1. \A s \in Subs, e \in Dates : Sent(s, e)' = Sent(s, e)
      BY <1>1 DEF Sent
    <3>. QED
      BY <1>1, <3>1, QueueTypes, SMT
  <2>. QED
    BY <1>1, <1>4, <1>5, <2>1, QuietStep DEF Exists
<1>6. CASE jobs[<<x, d>>] = NoJob /\ jobs' = [jobs EXCEPT ![<<x, d>>] = NewJob(x)]
  <2>1. NewJob(x).state = "waiting" /\ NewJob(x).sub = x
    BY Zenon DEF NewJob, NoJob
  <2>2. /\ JobOf(x, d)' = NewJob(x)
        /\ \A s \in Subs, k \in Dates : s # x \/ k # d => JobOf(s, k)' = JobOf(s, k)
    BY <1>6, JobUpdated
  <2>3. Absent(x, d) /\ Known(x, d) /\ Exists(x)
    <3>1. Absent(x, d)
      BY <1>6 DEF Absent, JobOf, NoJob
    <3>2. <<x, d>> \in ticks[t].todo
      BY <1>3
    <3>. QED
      BY <3>1, <3>2 DEF Known, CountInv, NothingYet
  <2>4. ASSUME NEW s \in Subs, NEW k \in Dates, JobOf(s, k).state = "active"
        PROVE  JobOf(s, k).by # None /\ (s # x \/ k # d)
    <3>1. JobOf(s, k).by \in Cycles
      BY <2>4, OwnCall DEF CountInv
    <3>. QED
      BY <2>3, <2>4, <3>1, CycleAssumption DEF Absent
  <2>5. None \notin Cycles
    BY CycleAssumption
  <2>. DEFINE job == NewJob(x)
  <2>6. /\ job.sub = x /\ job.state = "waiting"
        /\ JobOf(x, d)' = job
        /\ \A s \in Subs, k \in Dates : s # x \/ k # d => JobOf(s, k)' = JobOf(s, k)
    BY <2>1, <2>2
  <2>. HIDE DEF job
  <2>7. /\ JobsNamed' /\ CallsHaveJobs' /\ NothingYet'
        /\ \A s \in Subs, k \in Dates : s # x \/ k # d => NoMoreChance(s, k)
    BY <1>1, <1>4, <2>3, <2>4, <2>5, <2>6, OneJobChanges
  <2>8. NoMoreChance(x, d)
    <3>1. JobOf(x, d)' = job
      BY <2>6
    <3>2. \A e \in Dates : ~Records(x, d, e)
      BY <2>3 DEF Absent, Records, Runs
    <3>3. Chance(x, d)
      BY <2>3 DEF Chance
    <3>. QED
      BY <2>6, <3>1, <3>2, <3>3, JobRests
  <2>. QED
    BY <1>1, <2>7, <2>8, JobsQuiet
<1>. QED
  BY <1>2, <1>3, <1>5, <1>6

LEMMA TakeCounts ==
  ASSUME SchedulerOnly, ServiceInv, ServiceInv', CountInv,
         NEW j \in JobIds, NEW c \in Cycles, TakeJob(j, c)
  PROVE  CountInv'
<1>1. UNCHANGED <<subs, payments, charges, adrift, now, faults, ticks>>
      /\ jobs[j].state = "waiting" /\ cycles[c].pc = "idle"
  BY DEF TakeJob, Start, tables, At
<1>2. PICK x \in Subs, d \in Dates : j = <<x, d>>
  BY QueueJobs
<1>3. JobOf(x, d).state = "waiting" /\ JobOf(x, d).sub = x /\ Exists(x)
  BY <1>1, <1>2 DEF JobOf, CountInv, JobsNamed, NothingYet, Absent
<1>. DEFINE job == [jobs[j] EXCEPT !.state = "active", !.by = c]
<1>4. job.state = "active" /\ job.by = c /\ job.sub = x
  BY <1>2, <1>3, QueueJobs, Zenon DEF Job, JobOf
<1>5. jobs' = [jobs EXCEPT ![<<x, d>>] = job]
  BY <1>2 DEF TakeJob, ServiceInv, ServiceTypeOK
<1>. HIDE DEF job
<1>6. /\ JobOf(x, d)' = job
      /\ \A s \in Subs, k \in Dates : s # x \/ k # d => JobOf(s, k)' = JobOf(s, k)
  BY <1>5, JobUpdated
<1>7. PICK pc \in {"returned", "find"} :
        cycles' = [cycles EXCEPT ![c] =
          [pc |-> pc, sub |-> x, end |-> subs[x].end, retry |-> subs[x].retry]]
  BY <1>2, <1>3 DEF TakeJob, Start, JobOf
<1>8. /\ cycles'[c].pc = pc /\ cycles'[c].sub = x /\ cycles'[c].end = subs[x].end
      /\ \A b \in Cycles \ {c} : cycles'[b] = cycles[b]
  BY <1>7 DEF ServiceInv, ServiceTypeOK, TypeOK, CycleTypeOK
<1>9. ASSUME NEW s \in Subs, NEW k \in Dates, JobOf(s, k).state = "active"
      PROVE  JobOf(s, k).by # c /\ (s # x \/ k # d)
  BY <1>1, <1>3, <1>9, OwnCall DEF CountInv
<1>10. /\ JobsNamed' /\ CallsHaveJobs' /\ NothingYet'
       /\ \A s \in Subs, k \in Dates : s # x \/ k # d => NoMoreChance(s, k)
  <2>1. \A t \in Sweepers : ticks'[t].todo \subseteq ticks[t].todo
    BY <1>1
  <2>. QED
    BY <1>1, <1>3, <1>4, <1>6, <1>8, <1>9, <2>1, OneJobChanges
<1>11. NoMoreChance(x, d)
  <2>1. JobOf(x, d)' = job
    BY <1>6
  <2>2. Chance(x, d) /\ ~Absent(x, d)' /\ \A e \in Dates : ~Records(x, d, e)
    BY <1>3, <1>4, <2>1 DEF Chance, Absent, Records, Runs
  <2>3. \A e \in Dates : Tries(x, d, e)' => subs'[x].end = e
    BY <1>1, <1>4, <1>8, <2>1 DEF Tries, End
  <2>. QED
    BY <2>2, <2>3 DEF NoMoreChance
<1>. QED
  BY <1>1, <1>10, <1>11, JobsQuiet

LEMMA FinishCounts ==
  ASSUME SchedulerOnly, ServiceInv, ServiceInv', CountInv, NEW j \in JobIds, FinishJob(j)
  PROVE  CountInv'
<1>1. UNCHANGED <<subs, payments, charges, adrift, now, faults, ticks>>
      /\ jobs[j].state = "active"
  BY DEF FinishJob, Finish, tables
<1>2. PICK x \in Subs, d \in Dates : j = <<x, d>>
  BY QueueJobs
<1>3. PICK c \in Cycles : c = jobs[j].by
  BY <1>1, ActiveCall
<1>4. JobOf(x, d).state = "active" /\ JobOf(x, d).sub = x /\ Exists(x) /\ JobOf(x, d).by = c
  BY <1>1, <1>2, <1>3 DEF JobOf, CountInv, JobsNamed, NothingYet, Absent
<1>5. cycles' = [cycles EXCEPT ![c] = IdleCycle] /\ cycles[c].pc \in {"returned", "threw"}
  BY <1>3 DEF FinishJob, Finish
<1>6. cycles'[c].pc = "idle" /\ \A b \in Cycles \ {c} : cycles'[b] = cycles[b]
  BY <1>5 DEF ServiceInv, ServiceTypeOK, TypeOK, CycleTypeOK, IdleCycle
<1>7. PICK job :
        /\ jobs' = [jobs EXCEPT ![<<x, d>>] = job]
        /\ job.sub = x /\ job.state \in {"waiting", "completed", "failed"}
        /\ job.state = "waiting" => At(c, "threw")
  <2>1. j \notin Manual
    BY DEF SchedulerOnly
  <2>. DEFINE threw == At(jobs[j].by, "threw")
              again == [jobs[j] EXCEPT !.state = "waiting", !.by = None, !.tries = @ + 1]
              done == [jobs[j] EXCEPT !.state = "completed", !.by = None]
              gone == [jobs[j] EXCEPT !.state = "failed", !.by = None, !.tries = @ + 1]
              job == IF threw /\ jobs[j].tries + 1 < Attempts THEN again
                     ELSE IF j \in Manual THEN NoJob
                     ELSE IF threw THEN gone
                     ELSE done
  <2>2. jobs' = [jobs EXCEPT ![j] = job]
    BY DEF FinishJob
  <2>3. (job = again /\ threw) \/ job = done \/ job = gone
    <3>. HIDE DEF again, done, gone
    <3>. QED
      BY <2>1, SMT DEF At
  <2>4. jobs[j] \in Job /\ jobs[j].sub = x
    BY <1>2, <1>4, QueueJobs DEF JobOf
  <2>5. done.sub = x /\ done.state = "completed"
    BY <2>4, SMT DEF Job
  <2>6. again.sub = x /\ again.state = "waiting" /\ gone.sub = x /\ gone.state = "failed"
    BY <2>4, SMT DEF Job
  <2>7. threw => At(c, "threw")
    BY <1>3
  <2>. HIDE DEF job, again, done, gone, threw
  <2>. QED
    BY <1>2, <2>2, <2>3, <2>5, <2>6, <2>7
<1>8. /\ JobOf(x, d)' = job
      /\ \A s \in Subs, k \in Dates : s # x \/ k # d => JobOf(s, k)' = JobOf(s, k)
  BY <1>7, JobUpdated
<1>9. ASSUME NEW s \in Subs, NEW k \in Dates
      PROVE  JobOf(s, k).by = c <=> s = x /\ k = d
  BY <1>4, OwnCall DEF CountInv
<1>10. /\ JobsNamed' /\ CallsHaveJobs' /\ NothingYet'
       /\ \A s \in Subs, k \in Dates : s # x \/ k # d => NoMoreChance(s, k)
  <2>1. \A t \in Sweepers : ticks'[t].todo \subseteq ticks[t].todo
    BY <1>1
  <2>. QED
    BY <1>1, <1>4, <1>6, <1>7, <1>8, <1>9, <2>1, OneJobChanges
<1>11. NoMoreChance(x, d)
  <2>1. JobOf(x, d)' = job
    BY <1>8
  <2>2. \A e \in Dates : ~Records(x, d, e)
    BY <1>4, <1>5 DEF Records, Runs, Booking
  <2>3. At(c, "threw") => Chance(x, d)
    BY <1>4 DEF At, Chance, Runs
  <2>. QED
    BY <1>7, <2>1, <2>2, <2>3, JobRests
<1>. QED
  BY <1>1, <1>10, <1>11, JobsQuiet

LEMMA RecoverCounts ==
  ASSUME SchedulerOnly, ServiceInv, ServiceInv', CountInv, NEW j \in JobIds, RecoverJob(j)
  PROVE  CountInv'
<1>1. UNCHANGED <<subs, payments, charges, adrift, now, faults, ticks, cycles>>
      /\ jobs[j].state = "stalled"
  BY DEF RecoverJob, vars
<1>2. PICK x \in Subs, d \in Dates : j = <<x, d>>
  BY QueueJobs
<1>3. JobOf(x, d).state = "stalled" /\ JobOf(x, d).sub = x /\ Exists(x)
  BY <1>1, <1>2 DEF JobOf, CountInv, JobsNamed, NothingYet, Absent
<1>4. PICK job :
        /\ jobs' = [jobs EXCEPT ![<<x, d>>] = job]
        /\ job.sub = x /\ job.state \in {"waiting", "failed"}
  <2>1. j \notin Manual
    BY DEF SchedulerOnly
  <2>. DEFINE again == [jobs[j] EXCEPT !.state = "waiting", !.stalls = 1]
              gone == [jobs[j] EXCEPT !.state = "failed"]
  <2>2. jobs' = [jobs EXCEPT ![j] = IF jobs[j].stalls = 0 THEN again ELSE gone]
    BY <2>1 DEF RecoverJob
  <2>3. jobs[j] \in Job /\ jobs[j].sub = x
    BY <1>2, <1>3, QueueJobs DEF JobOf
  <2>4. again.sub = x /\ again.state = "waiting" /\ gone.sub = x /\ gone.state = "failed"
    BY <2>3, SMT DEF Job
  <2>. HIDE DEF again, gone
  <2>. QED
    BY <1>2, <2>2, <2>4
<1>5. /\ JobOf(x, d)' = job
      /\ \A s \in Subs, k \in Dates : s # x \/ k # d => JobOf(s, k)' = JobOf(s, k)
  BY <1>4, JobUpdated
<1>6. ASSUME NEW s \in Subs, NEW k \in Dates, JobOf(s, k).state = "active"
      PROVE  JobOf(s, k).by # None /\ (s # x \/ k # d)
  BY <1>3, <1>6, OwnCall, CycleAssumption DEF CountInv
<1>7. /\ JobsNamed' /\ CallsHaveJobs' /\ NothingYet'
      /\ \A s \in Subs, k \in Dates : s # x \/ k # d => NoMoreChance(s, k)
  <2>1. \A t \in Sweepers : ticks'[t].todo \subseteq ticks[t].todo
    BY <1>1
  <2>2. None \notin Cycles
    BY CycleAssumption
  <2>. QED
    BY <1>1, <1>3, <1>4, <1>5, <1>6, <2>1, <2>2, OneJobChanges
<1>8. NoMoreChance(x, d)
  <2>1. JobOf(x, d)' = job
    BY <1>5
  <2>2. Chance(x, d) /\ \A e \in Dates : ~Records(x, d, e)
    BY <1>3 DEF Chance, Records, Runs
  <2>. QED
    BY <1>4, <2>1, <2>2, JobRests
<1>. QED
  BY <1>1, <1>7, <1>8, JobsQuiet

\* A transaction is sent, which pays or stays adrift.
LEMMA MoreSent ==
  ASSUME CycleTypeOK, NEW c \in Cycles, cycles[c].pc \in OpenPcs,
         \/ Charged(c) /\ UNCHANGED adrift
         \/ Adrift(c) /\ UNCHANGED charges
  PROVE  \A s \in Subs, e \in Dates :
           Sent(s, e)' = IF s = Sub(c) /\ e = End(c) THEN Sent(s, e) + 1 ELSE Sent(s, e)
<1>1. Sub(c) \in Subs /\ End(c) \in Dates
  BY OpenCycle
<1>2. charges \in [Subs -> [Dates -> Nat]] /\ adrift \in [Subs -> [Dates -> Nat]]
  BY DEF CycleTypeOK
<1> SUFFICES ASSUME NEW s \in Subs, NEW e \in Dates
      PROVE  charges'[s][e] + adrift'[s][e] =
               IF s = Sub(c) /\ e = End(c) THEN charges[s][e] + adrift[s][e] + 1
                                           ELSE charges[s][e] + adrift[s][e]
  BY DEF Sent
<1>3. charges[s][e] \in Nat /\ adrift[s][e] \in Nat
  BY <1>2
<1>4. CASE Charged(c) /\ UNCHANGED adrift
  <2>1. charges'[s][e] = IF s = Sub(c) /\ e = End(c) THEN charges[s][e] + 1 ELSE charges[s][e]
    BY <1>1, <1>2, <1>4 DEF Charged
  <2>. QED
    BY <1>3, <1>4, <2>1, SMT
<1>5. CASE Adrift(c) /\ UNCHANGED charges
  <2>1. adrift'[s][e] = IF s = Sub(c) /\ e = End(c) THEN adrift[s][e] + 1 ELSE adrift[s][e]
    BY <1>1, <1>2, <1>5 DEF Adrift
  <2>. QED
    BY <1>3, <1>5, <2>1, SMT
<1>. QED
  BY <1>4, <1>5

\* A worker dies.  The transaction it may have sent counts against the failure; so does
\* the chance its job gets back.
LEMMA CrashCounts ==
  ASSUME SchedulerOnly, ServiceInv, ServiceInv', CountInv, NEW c \in Cycles, CrashWorker(c)
  PROVE  CountInv'
<1>. CycleTypeOK
  BY DEF ServiceInv, ServiceTypeOK, TypeOK
<1>1. /\ UNCHANGED <<subs, payments, charges, now, ticks>> /\ cycles[c].pc # "idle"
      /\ faults' = faults + 1 /\ cycles' = [cycles EXCEPT ![c] = IdleCycle]
      /\ (At(c, "invoke") /\ Adrift(c)) \/ UNCHANGED adrift
  BY DEF CrashWorker, Crash, Fault, tables, At
<1>2. PICK x \in Subs, d \in Dates :
        x = Sub(c) /\ JobOf(x, d).state = "active" /\ JobOf(x, d).by = c
  BY <1>1 DEF CountInv, CallsHaveJobs, At
<1>3. JobOf(x, d).sub = x /\ Exists(x)
  BY <1>2 DEF CountInv, JobsNamed, NothingYet, Absent
<1>4. cycles'[c].pc = "idle" /\ \A b \in Cycles \ {c} : cycles'[b] = cycles[b]
  BY <1>1 DEF CycleTypeOK, IdleCycle
<1>5. ASSUME NEW s \in Subs, NEW k \in Dates
      PROVE  JobOf(s, k).by = c <=> s = x /\ k = d
  BY <1>2, OwnCall DEF CountInv
<1>. DEFINE job == [jobs[<<x, d>>] EXCEPT !.state = "stalled", !.by = None]
<1>6. job.sub = x /\ job.state = "stalled"
  <2>1. jobs[<<x, d>>] \in Job /\ jobs[<<x, d>>].sub = x
    BY <1>3 DEF JobOf, ServiceInv, ServiceTypeOK, JobIds, Scheduled
  <2>. QED
    BY <2>1, SMT DEF Job
<1>7. /\ JobOf(x, d)' = job
      /\ \A s \in Subs, k \in Dates : s # x \/ k # d => JobOf(s, k)' = JobOf(s, k)
  <2>1. ASSUME NEW s \in Subs, NEW k \in Dates
        PROVE  JobOf(s, k)' = IF jobs[<<s, k>>].by = c
                                THEN [jobs[<<s, k>>] EXCEPT !.state = "stalled", !.by = None]
                                ELSE jobs[<<s, k>>]
    BY DEF CrashWorker, JobOf, JobIds, Scheduled
  <2>2. JobOf(x, d)' = job
    BY <1>2, <2>1 DEF JobOf
  <2>3. ASSUME NEW s \in Subs, NEW k \in Dates, s # x \/ k # d
        PROVE  JobOf(s, k)' = JobOf(s, k)
    BY <1>5, <2>1, <2>3 DEF JobOf
  <2>. QED
    BY <2>2, <2>3
<1>. HIDE DEF job
<1>8. /\ JobsNamed' /\ CallsHaveJobs' /\ NothingYet'
      /\ \A s \in Subs, k \in Dates : s # x \/ k # d => NoMoreChance(s, k)
  <2>1. \A t \in Sweepers : ticks'[t].todo \subseteq ticks[t].todo
    BY <1>1
  <2>. QED
    BY <1>1, <1>3, <1>4, <1>5, <1>6, <1>7, <2>1, OneJobChanges
<1>t. /\ faults \in Nat /\ \A s \in Subs, e \in Dates : Sent(s, e) \in Nat
      /\ faults' \in Nat /\ \A s \in Subs, e \in Dates : Sent(s, e)' \in Nat
  BY QueueTypes, SentTypes
<1>9. \A s \in Subs, e \in Dates : Sent(s, e)' \in {Sent(s, e), Sent(s, e) + 1}
  <2>1. CASE UNCHANGED adrift
    BY <1>1, <2>1 DEF Sent
  <2>2. CASE At(c, "invoke") /\ Adrift(c)
    BY <1>1, <2>2, MoreSent DEF At, OpenPcs, LivePcs
  <2>. QED
    BY <1>1, <2>1, <2>2
<1>10. \A s \in Subs, e \in Dates : Sent(s, e)' + faults <= Sent(s, e) + faults'
  <2> SUFFICES ASSUME NEW s \in Subs, NEW e \in Dates
               PROVE  Sent(s, e)' + faults <= Sent(s, e) + faults'
    OBVIOUS
  <2>. QED
    BY <1>1, <1>9, <1>t, SMT
<1>11. faults' >= faults
  BY <1>1, <1>t, SMT
<1>12. ASSUME NEW s \in Subs PROVE Counted(s)'
  <2>1. CASE s # x
    BY <1>1, <1>8, <1>10, <1>11, <2>1, QuietCounts
  <2>2. CASE s = x /\ At(c, "invoke")
    <3>1. Chance(x, d) /\ \A e \in Dates : ~Records(x, d, e)
      BY <1>2, <2>2 DEF Chance, Records, Runs, Trying, Booking, At
    <3>2. NoMoreChance(x, d)
      BY <1>6, <1>7, <3>1, JobRests
    <3>. QED
      BY <1>1, <1>8, <1>10, <1>11, <2>2, <3>2, QuietCounts
  <2>3. CASE s = x /\ ~At(c, "invoke")
    <3>1. \A e \in Dates : Sent(s, e)' = Sent(s, e)
      BY <1>1, <2>3 DEF Sent
    <3>2. \A e \in Dates : Sent(s, e) \in Nat /\ Sent(s, e)' \in Nat /\ Sent(s, e)' <= Sent(s, e)
      BY <1>t, <3>1, SMT
    <3>3. \A e \in Dates : ~Tries(s, d, e)'
      BY <1>6, <1>7, <2>3 DEF Tries, Runs
    <3>4. \A k \in Dates \ {d} : NoMoreChance(s, k)
      BY <1>8, <2>3
    <3>5. Counted(s)
      BY DEF CountInv
    <3>. QED
      BY <1>1, <1>t, <3>2, <3>3, <3>4, <3>5, CountsFail
  <2>. QED
    BY <2>1, <2>2, <2>3
<1>. QED
  BY <1>8, <1>12 DEF CountInv

LEMMA ReadCounts ==
  ASSUME ServiceInv, ServiceInv', CountInv, NEW t \in Sweepers, ReadDue(t)
  PROVE  CountInv'
<1>1. UNCHANGED <<subs, payments, charges, adrift, now, faults, cycles, jobs>>
  BY DEF ReadDue, vars
<1>2. ASSUME NEW u \in Sweepers, NEW s \in Subs, NEW k \in Dates, <<s, k>> \in ticks'[u].todo
      PROVE  <<s, k>> \in ticks[u].todo \/ (Exists(s) /\ subs[s].end = k)
  <2>1. CASE <<s, k>> \notin ticks[u].todo
    <3>1. ticks'[u].todo = {<<x, subs[x].end>> : x \in {y \in Subs : Due(y)}}
      BY <1>2, <2>1 DEF ReadDue, ServiceInv, ServiceTypeOK
    <3>2. Due(s) /\ subs[s].end = k
      BY <1>2, <3>1
    <3>. QED
      BY <3>2 DEF Due, Exists
  <2>. QED
    BY <2>1
<1>3. JobsNamed' /\ CallsHaveJobs'
  BY <1>1 DEF CountInv, JobsNamed, CallsHaveJobs, Absent, JobOf, At, Sub
<1>4. NothingYet'
  <2> SUFFICES ASSUME NEW s \in Subs, NEW k \in Dates, ~Exists(s)
               PROVE  /\ Absent(s, k) /\ payments[s][k] = "NONE"
                      /\ \A u \in Sweepers : <<s, k>> \notin ticks'[u].todo
    BY <1>1 DEF NothingYet, Exists, Absent, JobOf
  <2>. QED
    BY <1>2 DEF CountInv, NothingYet
<1>5. ASSUME NEW s \in Subs, NEW k \in Dates PROVE NoMoreChance(s, k)
  <2>1. JobOf(s, k)' = JobOf(s, k)
    BY <1>1 DEF JobOf
  <2>2. Known(s, k)' => Known(s, k)
    BY <1>1, <1>2 DEF Known, Sub, End
  <2>3. \A pc : Walk(pc, pc)
    BY DEF Walk
  <2>. QED
    BY <1>1, <2>1, <2>2, <2>3, JobStands
<1>. QED
  BY <1>1, <1>3, <1>4, <1>5, JobsQuiet

\* Where a call goes on when nothing is rejected.
LEMMA CallWalks ==
  ASSUME NEW c \in Cycles, CycleStep(c) \/ InvokeLate(c) \/ InvokeUnread(c)
  PROVE  \E pc : pc # "idle" /\ Goto(c, pc) /\ Walk(cycles[c].pc, pc)
<1> USE DEF At, Walk, Trying, Booking
<1>1. CASE FindPayment(c) \/ CreatePayment(c)
  <2>1. \E pc \in {"advanceOnly", "create", "dispatch", "threw"} : Goto(c, pc)
    BY <1>1, Zenon DEF FindPayment, CreatePayment
  <2>2. cycles[c].pc \in {"find", "create"}
    BY <1>1 DEF FindPayment, CreatePayment
  <2>. QED
    BY <2>1, <2>2
<1>2. CASE Dispatch(c)
  <2>1. \E pc \in {"failed", "advance", "mock", "processing"} : Goto(c, pc)
    BY <1>2 DEF Dispatch, Rail
  <2>. QED
    BY <1>2, <2>1 DEF Dispatch
<1>3. CASE \/ MarkMock(c) \/ MarkProcessing(c) \/ InvokePaid(c)
           \/ InvokeFailed(c) \/ InvokeError(c) \/ InvokeLate(c) \/ InvokeUnread(c)
  <2>1. \E pc \in {"advance", "invoke", "recordPaid", "recordFailed", "recordError"} : Goto(c, pc)
    BY <1>3 DEF MarkMock, MarkProcessing, InvokePaid, InvokeFailed, InvokeError, InvokeLate,
                InvokeUnread
  <2>2. cycles[c].pc \in Trying
    BY <1>3 DEF MarkMock, MarkProcessing, InvokePaid, InvokeFailed, InvokeError, InvokeLate,
                InvokeUnread
  <2>. QED
    BY <2>1, <2>2
<1>4. CASE RecordPaid(c)
  BY <1>4 DEF RecordPaid
<1>5. CASE RecordFailure(c) \/ EnterGrace(c) \/ MarkRetrying(c) \/ Emit(c) \/ StoreRetry(c)
           \/ Advance(c)
  <2>1. \E pc \in {"failed", "emitFailed", "storeRetry", "returned", "emitSuccess"} : Goto(c, pc)
    BY <1>5 DEF RecordFailure, EnterGrace, MarkRetrying, Emit, StoreRetry, Advance
  <2>. QED
    BY <2>1
<1>. QED
  BY <1>1, <1>2, <1>3, <1>4, <1>5 DEF CycleStep

\* The rows of payments a step of a call writes.
LEMMA CallPays ==
  ASSUME TypeOK, NEW c \in Cycles, CycleStep(c) \/ CycleFault(c)
  PROVE  /\ cycles[c].pc \in OpenPcs
         /\ \A s \in Subs, e \in Dates : s # Sub(c) \/ e # End(c) =>
              \/ payments'[s][e] = payments[s][e]
              \/ payments[s][e] = "FAILED"
<1>. TablesTypeOK /\ CycleTypeOK
  BY DEF TypeOK
<1>o. cycles[c].pc \in OpenPcs
  BY DEF CycleStep, CycleFault, FindPayment, CreatePayment, Dispatch, MarkMock, MarkProcessing,
         InvokePaid, InvokeFailed, InvokeError, InvokeLate, InvokeUnread, RecordPaid,
         RecordFailure, Advance, Emit, EnterGrace, MarkRetrying, StoreRetry, Reject, At, OpenPcs,
         LivePcs
<1>1. CASE UNCHANGED payments
  BY <1>o, <1>1
<1>2. CASE \E st : SetRow(c, st)
  BY <1>o, <1>2, RowSet
<1>3. CASE MarkRetrying(c)
  BY <1>o, <1>3, RetryingSet
<1>. QED
  BY <1>1, <1>2, <1>3
     DEF CycleStep, CycleFault, FindPayment, CreatePayment, Dispatch, MarkMock, MarkProcessing,
         InvokePaid, InvokeFailed, InvokeError, InvokeLate, InvokeUnread, RecordPaid,
         RecordFailure, Advance, Emit, EnterGrace, StoreRetry, Reject, tables

\* While its call goes on, a job's chance is what the walk of the call makes of it.
LEMMA CallChances ==
  ASSUME ServiceInv, CountInv, UNCHANGED jobs, NEW c \in Cycles, NEW pc, Goto(c, pc),
         NEW s \in Subs, NEW k \in Dates, Absent(s, k) /\ Known(s, k)' => Known(s, k),
         JobOf(s, k).state = "active" /\ JobOf(s, k).by = c => Walk(cycles[c].pc, pc)
  PROVE  NoMoreChance(s, k)
<1>1. /\ cycles'[c].pc = pc /\ \A d \in Cycles : cycles'[d].end = cycles[d].end
      /\ \A d \in Cycles \ {c} : cycles'[d] = cycles[d]
  BY Gone DEF ServiceInv, ServiceTypeOK, TypeOK
<1>2. JobOf(s, k)' = JobOf(s, k)
  BY DEF JobOf
<1>3. JobOf(s, k).state = "active" => JobOf(s, k).by \in Cycles
  BY OwnCall DEF CountInv
<1>4. \A x : Walk(x, x)
  BY DEF Walk
<1>. QED
  BY <1>1, <1>2, <1>3, <1>4, JobStands

\* Every step of a call but the advance leaves the periods, and what is known of them.
LEMMA CallStands ==
  ASSUME ServiceInv, RowsExist, RowsExist', CountInv, NEW c \in Cycles, Working(c), ~Advance(c)
  PROVE  /\ JobsNamed' /\ CallsHaveJobs' /\ NothingYet'
         /\ \A s \in Subs : subs'[s].end = subs[s].end
         /\ \A s \in Subs, k \in Dates : Known(s, k)' => Known(s, k)
         /\ cycles[c].pc \in OpenPcs
         /\ \E d \in Dates : Sub(c) \in Subs /\ JobOf(Sub(c), d).state = "active"
                               /\ JobOf(Sub(c), d).by = c
<1>. TypeOK /\ CycleTypeOK
  BY DEF ServiceInv, ServiceTypeOK, TypeOK
<1>1. UNCHANGED <<jobs, ticks>> /\ (CycleStep(c) \/ CycleFault(c)) /\ Billing(c)
  BY DEF Working, Billing
<1>2. \A s \in Subs : subs'[s].start = subs[s].start /\ subs'[s].end = subs[s].end
  BY <1>1, CallKeepsRows
<1>3. \A s \in Subs : Exists(s) => Exists(s)'
  BY <1>2 DEF RowsExist
<1>4. /\ cycles[c].pc \in OpenPcs
      /\ \A s \in Subs, e \in Dates : s # Sub(c) \/ e # End(c) =>
           payments'[s][e] = payments[s][e] \/ payments[s][e] = "FAILED"
  BY <1>1, CallPays
<1>5. Sub(c) \in Subs /\ Exists(Sub(c))
  BY <1>4 DEF RowsExist, CycleTypeOK
<1>6. \A s \in Subs, e \in Dates : ~Exists(s) => payments'[s][e] = payments[s][e]
  <2> SUFFICES ASSUME NEW s \in Subs, NEW e \in Dates, ~Exists(s)
               PROVE  payments'[s][e] = payments[s][e]
    OBVIOUS
  <2>1. payments[s][e] = "NONE" /\ s # Sub(c)
    BY <1>5 DEF CountInv, NothingYet
  <2>. QED
    BY <1>4, <2>1
<1>7. PICK pc : Goto(c, pc)
  <2>1. CASE Reject(c)
    BY <2>1 DEF Reject
  <2>2. CASE CycleStep(c) \/ InvokeLate(c) \/ InvokeUnread(c)
    BY <2>2, CallWalks
  <2>. QED
    BY <1>1, <2>1, <2>2 DEF CycleFault
<1>8. /\ \A d \in Cycles : cycles'[d].sub = cycles[d].sub /\ cycles'[d].end = cycles[d].end
      /\ \A d \in Cycles \ {c} : cycles'[d] = cycles[d]
  BY <1>7, Gone
<1>9. JobsNamed' /\ CallsHaveJobs' /\ NothingYet'
  <2>1. cycles[c].pc # "idle"
    BY <1>4 DEF OpenPcs, LivePcs
  <2>2. \A d \in Cycles : cycles'[d].pc # "idle" =>
          cycles[d].pc # "idle" /\ cycles'[d].sub = cycles[d].sub
    BY <1>8, <2>1
  <2>3. \A t \in Sweepers : ticks'[t].todo \subseteq ticks[t].todo
    BY <1>1
  <2>. QED
    BY <1>1, <1>3, <1>6, <2>2, <2>3, JobsStand
<1>10. ASSUME NEW s \in Subs, NEW k \in Dates, Known(s, k)' PROVE Known(s, k)
  <2>1. CASE payments'[s][k] # "NONE"
    <3>1. CASE s = Sub(c) /\ k = End(c)
      BY <1>4, <3>1 DEF Known
    <3>2. CASE s # Sub(c) \/ k # End(c)
      <4>1. payments[s][k] # "NONE"
        BY <1>4, <2>1, <3>2
      <4>. QED
        BY <4>1 DEF Known
    <3>. QED
      BY <3>1, <3>2
  <2>2. ASSUME NEW d \in Cycles, cycles'[d].pc \in OpenPcs, cycles'[d].sub = s, cycles'[d].end = k
        PROVE  Known(s, k)
    <3>1. cycles[d].pc \in OpenPcs /\ Sub(d) = s /\ End(d) = k
      BY <1>4, <1>8, <2>2 DEF Sub, End
    <3>. QED
      BY <3>1 DEF Known
  <2>3. CASE subs'[s].end = k \/ \E t \in Sweepers : <<s, k>> \in ticks'[t].todo
    BY <1>1, <1>2, <2>3 DEF Known
  <2>. QED
    BY <1>10, <2>1, <2>2, <2>3 DEF Known, Sub, End
<1>11. \E d \in Dates : JobOf(Sub(c), d).state = "active" /\ JobOf(Sub(c), d).by = c
  BY <1>4 DEF CountInv, CallsHaveJobs, At, OpenPcs, LivePcs
<1>. QED
  BY <1>2, <1>4, <1>5, <1>9, <1>10, <1>11

\* A step that walks on: what it sends beyond a charge the contract confirms is a failure.
LEMMA WalkCounts ==
  ASSUME ServiceInv, ServiceInv', RowsExist, RowsExist', CountInv,
         NEW c \in Cycles, Working(c), ~Advance(c),
         \/ CycleStep(c) /\ ~InvokePaid(c)
         \/ InvokeLate(c)
         \/ InvokeUnread(c) /\ UNCHANGED adrift
  PROVE  CountInv'
<1>. CycleTypeOK
  BY DEF ServiceInv, ServiceTypeOK, TypeOK
<1>1. UNCHANGED jobs /\ (CycleStep(c) \/ InvokeLate(c) \/ InvokeUnread(c))
  BY DEF Working, CycleFault
<1>2. /\ JobsNamed' /\ CallsHaveJobs' /\ NothingYet'
      /\ \A s \in Subs : subs'[s].end = subs[s].end
      /\ \A s \in Subs, k \in Dates : Known(s, k)' => Known(s, k)
      /\ cycles[c].pc \in OpenPcs
  BY CallStands
<1>3. PICK pc : Goto(c, pc) /\ Walk(cycles[c].pc, pc)
  BY <1>1, CallWalks
<1>4. \A s \in Subs, k \in Dates : NoMoreChance(s, k)
  BY <1>1, <1>2, <1>3, CallChances
<1>t. /\ faults \in Nat /\ \A s \in Subs, e \in Dates : Sent(s, e) \in Nat
      /\ faults' \in Nat /\ \A s \in Subs, e \in Dates : Sent(s, e)' \in Nat
  BY QueueTypes, SentTypes
<1>5. /\ faults' \in {faults, faults + 1}
      /\ faults' = faults => \A s \in Subs, e \in Dates : Sent(s, e)' = Sent(s, e)
      /\ \A s \in Subs, e \in Dates : Sent(s, e)' \in {Sent(s, e), Sent(s, e) + 1}
  <2>1. CASE InvokeLate(c)
    <3>1. \A s \in Subs, e \in Dates : Sent(s, e)' \in {Sent(s, e), Sent(s, e) + 1}
      BY <1>2, <2>1, MoreSent DEF InvokeLate
    <3>2. faults' = faults + 1 /\ faults' # faults
      BY <1>t, <2>1, SMT DEF InvokeLate, Fault
    <3>. QED
      BY <3>1, <3>2
  <2>2. CASE ~InvokeLate(c)
    <3>1. UNCHANGED <<charges, adrift>> /\ faults' \in {faults, faults + 1}
      BY <1>1, <2>2
         DEF CycleStep, FindPayment, CreatePayment, Dispatch, MarkMock, MarkProcessing,
             InvokeFailed, InvokeError, InvokeUnread, RecordPaid, RecordFailure, Emit,
             EnterGrace, MarkRetrying, StoreRetry, Fault, Working, CycleFault
    <3>. QED
      BY <3>1 DEF Sent
  <2>. QED
    BY <2>1, <2>2
<1>6. ASSUME NEW s \in Subs PROVE Counted(s)'
  <2>1. ASSUME NEW e \in Dates PROVE Sent(s, e)' + faults <= Sent(s, e) + faults'
    BY <1>5, <1>t, SMT
  <2>2. faults' >= faults
    BY <1>5, <1>t, SMT
  <2>. QED
    BY <1>2, <1>4, <2>1, <2>2, QuietCounts
<1>. QED
  BY <1>2, <1>6 DEF CountInv

\* The contract confirms the charge.
LEMMA ChargeCounts ==
  ASSUME ServiceInv, ServiceInv', RowsExist, RowsExist', CountInv,
         NEW c \in Cycles, Working(c), InvokePaid(c), UNCHANGED adrift
  PROVE  CountInv'
<1>. CycleTypeOK
  BY DEF ServiceInv, ServiceTypeOK, TypeOK
<1>1. /\ UNCHANGED <<jobs, faults>> /\ Charged(c) /\ Goto(c, "recordPaid")
      /\ cycles[c].pc = "invoke"
  BY DEF Working, InvokePaid, At
<1>2. ~Advance(c)
  BY <1>1 DEF Advance, At
<1>3. /\ JobsNamed' /\ CallsHaveJobs' /\ NothingYet'
      /\ \A s \in Subs : subs'[s].end = subs[s].end
      /\ \A s \in Subs, k \in Dates : Known(s, k)' => Known(s, k)
      /\ cycles[c].pc \in OpenPcs
  BY <1>2, CallStands
<1>4. PICK x \in Subs, j \in Dates :
        x = Sub(c) /\ JobOf(x, j).state = "active" /\ JobOf(x, j).by = c
  BY <1>2, CallStands
<1>5. PICK d \in Dates : d = End(c)
  BY QueueTypes
<1>6. \A s \in Subs, k \in Dates : NoMoreChance(s, k)
  <2>1. Walk(cycles[c].pc, "recordPaid")
    BY <1>1 DEF Walk, Trying, Booking
  <2>. QED
    BY <1>1, <1>3, <2>1, CallChances
<1>7. \A s \in Subs, e \in Dates :
        Sent(s, e)' = IF s = x /\ e = d THEN Sent(s, e) + 1 ELSE Sent(s, e)
  BY <1>1, <1>3, <1>4, <1>5, MoreSent
<1>t. /\ faults \in Nat /\ \A s \in Subs, e \in Dates : Sent(s, e) \in Nat
      /\ faults' \in Nat /\ \A s \in Subs, e \in Dates : Sent(s, e)' \in Nat
  BY QueueTypes, SentTypes
<1>8. ASSUME NEW s \in Subs, s # x PROVE Counted(s)'
  <2>1. \A e \in Dates : Sent(s, e)' + faults <= Sent(s, e) + faults'
    <3> SUFFICES ASSUME NEW e \in Dates PROVE Sent(s, e)' + faults <= Sent(s, e) + faults'
      OBVIOUS
    <3>1. Sent(s, e)' = Sent(s, e)
      BY <1>7, <1>8
    <3>. QED
      BY <1>1, <1>t, <3>1, SMT
  <2>2. faults' >= faults
    BY <1>1, <1>t, SMT
  <2>. QED
    BY <1>3, <1>6, <2>1, <2>2, QuietCounts
<1>9. Counted(x)'
  <2>1. cycles'[c].pc = "recordPaid" /\ cycles'[c].end = d
    BY <1>1, <1>5, Gone DEF End
  <2>2. Tries(x, j, d)
    BY <1>1, <1>4, <1>5 DEF Tries, Runs, Trying
  <2>3. ~Tries(x, j, d)' /\ Records(x, j, d)'
    BY <1>1, <1>4, <2>1 DEF Tries, Records, Runs, Trying, Booking, JobOf, End
  <2>4. /\ \A e \in Dates : Sent(x, e) \in Nat /\ Sent(x, e)' \in Nat
        /\ \A e \in Dates \ {d} : Sent(x, e)' = Sent(x, e)
        /\ Sent(x, d)' = Sent(x, d) + 1
    BY <1>t, <1>7
  <2>5. Counted(x) /\ UNCHANGED subs[x].end
    BY <1>3 DEF CountInv
  <2>. QED
    BY <1>1, <1>t, <1>6, <2>2, <2>3, <2>4, <2>5, CountsCharge
<1>. QED
  BY <1>3, <1>8, <1>9 DEF CountInv

\* An await of a call is rejected.
LEMMA RejectCounts ==
  ASSUME ServiceInv, ServiceInv', RowsExist, RowsExist', CountInv,
         NEW c \in Cycles, Working(c), Reject(c), UNCHANGED adrift
  PROVE  CountInv'
<1>1. /\ UNCHANGED <<jobs, charges>> /\ faults' = faults + 1
      /\ \E pc \in {"recordError", "failed", "threw"} : Goto(c, pc)
  <2>1. Catch(cycles[c].pc) \in {"recordError", "failed", "threw"}
    BY Zenon DEF Catch
  <2>. QED
    BY <2>1 DEF Working, Reject, Fault
<1>2. PICK pc \in {"recordError", "failed", "threw"} : Goto(c, pc)
  BY <1>1
<1>3. ~Advance(c)
  <2> SUFFICES ASSUME Advance(c) PROVE FALSE
    OBVIOUS
  <2>1. PICK to \in {"emitSuccess", "returned"} : Goto(c, to)
    BY DEF Advance
  <2>2. cycles'[c].pc = to /\ cycles'[c].pc = pc
    BY <1>2, <2>1, Gone DEF ServiceInv, ServiceTypeOK, TypeOK
  <2>. QED
    BY <2>2
<1>4. /\ JobsNamed' /\ CallsHaveJobs' /\ NothingYet'
      /\ \A s \in Subs : subs'[s].end = subs[s].end
      /\ \A s \in Subs, k \in Dates : Known(s, k)' => Known(s, k)
  BY <1>3, CallStands
<1>5. PICK x \in Subs, j \in Dates :
        x = Sub(c) /\ JobOf(x, j).state = "active" /\ JobOf(x, j).by = c
  BY <1>3, CallStands
<1>6. ASSUME NEW s \in Subs, NEW k \in Dates, s # x \/ k # j PROVE NoMoreChance(s, k)
  <2>1. ~(JobOf(s, k).state = "active" /\ JobOf(s, k).by = c)
    BY <1>5, <1>6, OwnCall DEF CountInv
  <2>. QED
    BY <1>1, <1>2, <1>4, <2>1, CallChances
<1>t. /\ faults \in Nat /\ \A s \in Subs, e \in Dates : Sent(s, e) \in Nat
      /\ faults' \in Nat /\ \A s \in Subs, e \in Dates : Sent(s, e)' \in Nat
  BY QueueTypes, SentTypes
<1>7. \A s \in Subs, e \in Dates : Sent(s, e)' = Sent(s, e)
  BY <1>1 DEF Sent
<1>8. ASSUME NEW s \in Subs, s # x PROVE Counted(s)'
  <2>1. \A e \in Dates : Sent(s, e)' + faults <= Sent(s, e) + faults'
    <3> SUFFICES ASSUME NEW e \in Dates PROVE Sent(s, e)' + faults <= Sent(s, e) + faults'
      OBVIOUS
    <3>. QED
      BY <1>1, <1>t, <1>7, SMT
  <2>2. faults' >= faults
    BY <1>1, <1>t, SMT
  <2>. QED
    BY <1>4, <1>6, <1>8, <2>1, <2>2, QuietCounts
<1>9. Counted(x)'
  <2>1. cycles'[c].pc = pc
    BY <1>2, Gone DEF ServiceInv, ServiceTypeOK, TypeOK
  <2>2. \A e \in Dates : ~Tries(x, j, e)'
    BY <1>1, <1>5, <2>1 DEF Tries, Runs, Trying, JobOf
  <2>3. \A e \in Dates : Sent(x, e) \in Nat /\ Sent(x, e)' \in Nat /\ Sent(x, e)' <= Sent(x, e)
    BY <1>t, <1>7, SMT
  <2>4. Counted(x) /\ UNCHANGED subs[x].end /\ \A k \in Dates \ {j} : NoMoreChance(x, k)
    BY <1>4, <1>6 DEF CountInv
  <2>. QED
    BY <1>1, <1>t, <2>2, <2>3, <2>4, CountsFail
<1>. QED
  BY <1>4, <1>8, <1>9 DEF CountInv

\* A call moves its subscription on.
LEMMA AdvanceCounts ==
  ASSUME ServiceInv, ServiceInv', RowsExist, RowsExist', TraceInv, SentIsWritten, CountInv,
         NEW c \in Cycles, Working(c), Advance(c)
  PROVE  CountInv'
<1>. TypeOK /\ TablesTypeOK /\ CycleTypeOK
  BY DEF ServiceInv, ServiceTypeOK, TypeOK
<1>1. /\ UNCHANGED <<jobs, ticks, payments, charges, faults>>
      /\ cycles[c].pc \in Booking /\ cycles[c].pc \in OpenPcs
      /\ \E pc \in {"emitSuccess", "returned"} : Goto(c, pc)
  BY DEF Working, Advance, At, Booking, OpenPcs
<1>2. UNCHANGED adrift
  BY SMT DEF Working, CycleStep, CycleFault, InvokeLate, Advance, At
<1>3. PICK pc \in {"emitSuccess", "returned"} : Goto(c, pc)
  BY <1>1
<1>4. /\ cycles'[c].pc = pc
      /\ \A b \in Cycles : cycles'[b].sub = cycles[b].sub /\ cycles'[b].end = cycles[b].end
      /\ \A b \in Cycles \ {c} : cycles'[b] = cycles[b]
  BY <1>3, Gone
<1>5. PICK x \in Subs, d \in Dates, z \in Dates : x = Sub(c) /\ d = End(c) /\ z = NextPeriod(d)
  BY <1>1, OpenCycle
<1>6. PICK j \in Dates : JobOf(x, j).state = "active" /\ JobOf(x, j).by = c
  BY <1>1, <1>5 DEF CountInv, CallsHaveJobs, At, OpenPcs, LivePcs
<1>. DEFINE row == [subs[x] EXCEPT !.status = "ACTIVE", !.start = d, !.end = z, !.retry = 0,
                                   !.grace = NoTime]
<1>7. row.status = "ACTIVE" /\ row.end = z
  <2>1. subs[x] \in Subscription
    BY DEF TablesTypeOK
  <2>. QED
    BY <2>1, Zenon DEF Subscription
<1>8. subs' = [subs EXCEPT ![x] = row]
  BY <1>5 DEF Advance
<1>. HIDE DEF row
<1>9. subs'[x].end = z /\ subs'[x].status = "ACTIVE" /\ \A s \in Subs \ {x} : subs'[s] = subs[s]
  BY <1>7, <1>8 DEF TablesTypeOK
<1>10. JobsNamed' /\ CallsHaveJobs' /\ NothingYet'
  <2>1. \A s \in Subs : Exists(s) => Exists(s)'
    BY <1>9 DEF Exists
  <2>2. \A b \in Cycles : cycles'[b].pc # "idle" =>
          cycles[b].pc # "idle" /\ cycles'[b].sub = cycles[b].sub
    BY <1>1, <1>4 DEF OpenPcs, LivePcs
  <2>3. \A t \in Sweepers : ticks'[t].todo \subseteq ticks[t].todo
    BY <1>1
  <2>4. \A s \in Subs, e \in Dates : ~Exists(s) => payments'[s][e] = payments[s][e]
    BY <1>1
  <2>. QED
    BY <1>1, <2>1, <2>2, <2>3, <2>4, JobsStand
<1>11. ASSUME NEW s \in Subs, NEW k \in Dates, s # x \/ k # z, Known(s, k)' PROVE Known(s, k)
  <2>1. CASE subs'[s].end = k
    BY <1>9, <1>11, <2>1 DEF Known
  <2>2. ASSUME NEW b \in Cycles, cycles'[b].pc \in OpenPcs, cycles'[b].sub = s, cycles'[b].end = k
        PROVE  Known(s, k)
    <3>1. cycles[b].pc \in OpenPcs /\ Sub(b) = s /\ End(b) = k
      BY <1>1, <1>4, <2>2 DEF Sub, End
    <3>. QED
      BY <3>1 DEF Known
  <2>3. CASE payments'[s][k] # "NONE" \/ \E t \in Sweepers : <<s, k>> \in ticks'[t].todo
    BY <1>1, <2>3 DEF Known
  <2>. QED
    BY <1>11, <2>1, <2>2, <2>3 DEF Known, Sub, End
<1>12. Walk(cycles[c].pc, pc)
  BY <1>1 DEF Walk, Trying, Booking
<1>t. /\ faults \in Nat /\ \A s \in Subs, e \in Dates : Sent(s, e) \in Nat
  BY QueueTypes
<1>13. \A s \in Subs, e \in Dates : Sent(s, e)' = Sent(s, e)
  BY <1>1, <1>2 DEF Sent
<1>14. ASSUME NEW s \in Subs, s # x PROVE Counted(s)'
  <2>1. \A k \in Dates : NoMoreChance(s, k)
    BY <1>1, <1>3, <1>11, <1>12, <1>14, CallChances
  <2>2. \A e \in Dates : Sent(s, e)' + faults <= Sent(s, e) + faults'
    <3> SUFFICES ASSUME NEW e \in Dates PROVE Sent(s, e)' + faults <= Sent(s, e) + faults'
      OBVIOUS
    <3>. QED
      BY <1>1, <1>t, <1>13, SMT
  <2>3. faults' >= faults
    BY <1>1, <1>t, SMT
  <2>4. subs'[s].end = subs[s].end
    BY <1>9, <1>14
  <2>. QED
    BY <2>1, <2>2, <2>3, <2>4, QuietCounts
<1>15. Counted(x)'
  <2>1. z # d
    <3>1. d \in Int
      BY DEF Dates
    <3>. QED
      BY <1>5, <3>1, TablesAssumption, SMT DEF NextPeriod
  <2>2. Records(x, j, d)
    BY <1>1, <1>5, <1>6 DEF Records, Runs
  <2>j. \A k \in Dates : JobOf(x, k)' = JobOf(x, k)
    BY <1>1 DEF JobOf
  <2>3. ~Chance(x, j)'
    BY <1>4, <1>6, <2>j DEF Chance, Absent, Runs, Trying, Booking
  <2>4. ASSUME NEW k \in Dates, k # z \/ ~Absent(x, k) PROVE Chance(x, k)' => Chance(x, k)
    <3>1. NoMoreChance(x, k)
      BY <1>1, <1>3, <1>11, <1>12, <2>4, CallChances
    <3>. QED
      BY <3>1 DEF NoMoreChance
  <2>5. ASSUME NEW k \in Dates \ {j}, JobOf(x, k).state = "active"
        PROVE  JobOf(x, k).by \in Cycles /\ cycles'[JobOf(x, k).by] = cycles[JobOf(x, k).by]
    BY <1>4, <1>6, <2>5, OwnCall DEF CountInv
  <2>6. \A k \in Dates \ {j}, e \in Dates : ~Records(x, k, e)' => ~Records(x, k, e)
    BY <2>5, <2>j DEF Records, Runs, End
  <2>7. ASSUME NEW k \in Dates, NEW e \in Dates, Tries(x, k, e)' PROVE Tries(x, k, e)
    <3>1. CASE k = j
      BY <1>4, <1>6, <2>7, <2>j, <3>1 DEF Tries, Runs, Trying
    <3>2. CASE k # j
      BY <2>5, <2>7, <2>j, <3>2 DEF Tries, Runs, End
    <3>. QED
      BY <3>1, <3>2
  <2>8. \A k \in Dates : Absent(x, k)' => Absent(x, k)
    BY <2>j DEF Absent
  <2>9. ASSUME ~Known(x, z) PROVE Sent(x, z) = 0 /\ \A k \in Dates : ~Records(x, k, z)
    <3>1. payments[x][z] = "NONE"
      BY <2>9 DEF Known
    <3>2. ~(charges[x][z] > 0) /\ ~(adrift[x][z] > 0)
      BY <3>1 DEF TraceInv, ChargeLeavesTrace, SentIsWritten
    <3>3. charges[x][z] \in Nat /\ adrift[x][z] \in Nat
      BY DEF CycleTypeOK
    <3>4. Sent(x, z) = 0
      BY <3>2, <3>3, SMT DEF Sent
    <3>5. ASSUME NEW k \in Dates, Records(x, k, z) PROVE FALSE
      <4>1. /\ JobOf(x, k).by \in Cycles /\ Sub(JobOf(x, k).by) = x
            /\ End(JobOf(x, k).by) = z /\ cycles[JobOf(x, k).by].pc \in OpenPcs
        BY <3>5, OwnCall DEF CountInv, Records, Runs, Booking, OpenPcs, LivePcs
      <4>. QED
        BY <2>9, <4>1 DEF Known
    <3>. QED
      BY <3>4, <3>5
  <2>10. Counted(x) /\ Chance(x, z)' => Chance(x, z) \/ Absent(x, z)
    BY <2>4
  <2>11. Counted(x) /\ faults' = faults
    BY <1>1 DEF CountInv
  <2>12. \A k \in Dates \ {z} : Chance(x, k)' => Chance(x, k)
    BY <2>4
  <2>13. \A e \in Dates : Sent(x, e) \in Nat /\ Sent(x, e)' = Sent(x, e)
    BY <1>t, <1>13
  <2>. QED
    BY <1>t, <1>5, <1>9, <2>1, <2>2, <2>3, <2>6, <2>7, <2>8, <2>9, <2>10, <2>11, <2>12, <2>13,
       CountsAdvance
<1>. QED
  BY <1>10, <1>14, <1>15 DEF CountInv

LEMMA CallCountsKept ==
  ASSUME ServiceInv, ServiceInv', RowsExist, RowsExist', TraceInv, SentIsWritten, CountInv,
         NEW c \in Cycles, Working(c)
  PROVE  CountInv'
<1>1. CASE Advance(c)
  BY <1>1, AdvanceCounts
<1>2. CASE InvokePaid(c) /\ UNCHANGED adrift
  BY <1>2, ChargeCounts
<1>3. CASE Reject(c) /\ UNCHANGED adrift
  BY <1>3, RejectCounts
<1>4. CASE /\ ~Advance(c)
           /\ \/ CycleStep(c) /\ ~InvokePaid(c)
              \/ InvokeLate(c)
              \/ InvokeUnread(c) /\ UNCHANGED adrift
  BY <1>4, WalkCounts
<1>5. CycleStep(c) => UNCHANGED adrift
  BY DEF CycleStep
<1>. QED
  BY <1>1, <1>2, <1>3, <1>4, <1>5 DEF Working, CycleFault

\* What the network settles was sent before.
LEMMA SettlingLowers ==
  ASSUME TypeOK, Settling
  PROVE  \A s \in Subs, e \in Dates : Sent(s, e)' <= Sent(s, e)
<1>1. PICK s \in Subs, e \in Dates : Land(s, e) \/ Lapse(s, e)
  BY DEF Settling, ChainStep
<1>2. /\ charges \in [Subs -> [Dates -> Nat]] /\ adrift \in [Subs -> [Dates -> Nat]]
      /\ \/ /\ charges' = [charges EXCEPT ![s][e] = @ + 1]
            /\ adrift' = [adrift EXCEPT ![s][e] = @ - 1]
         \/ charges' = charges /\ adrift' = [adrift EXCEPT ![s][e] = @ - 1]
  BY <1>1 DEF Land, Lapse, TypeOK, CycleTypeOK
<1>3. ASSUME NEW x \in Subs, NEW d \in Dates
      PROVE  charges'[x][d] + adrift'[x][d] <= charges[x][d] + adrift[x][d]
  <2>1. charges[x][d] \in Nat /\ adrift[x][d] \in Nat
    BY <1>2
  <2>2. CASE x = s /\ d = e
    <3>1. adrift'[x][d] = adrift[x][d] - 1
          /\ charges'[x][d] \in {charges[x][d], charges[x][d] + 1}
      BY <1>2, <2>2
    <3>. QED
      BY <2>1, <3>1, SMT
  <2>3. CASE x # s \/ d # e
    <3>1. adrift'[x][d] = adrift[x][d] /\ charges'[x][d] = charges[x][d]
      BY <1>2, <2>3
    <3>. QED
      BY <2>1, <3>1, SMT
  <2>. QED
    BY <2>2, <2>3
<1>. QED
  BY <1>3 DEF Sent

\* A route makes a subscription, which has one chance, or leaves every period alone.
LEMMA ServingCounts ==
  ASSUME SchedulerOnly, ServiceInv, ServiceInv', RowsExist, RowsExist', TraceInv, SentIsWritten,
         CountInv, Serving, UNCHANGED <<jobs, ticks>>
  PROVE  CountInv'
<1>. TypeOK /\ CycleTypeOK
  BY DEF ServiceInv, ServiceTypeOK, TypeOK
<1>1. UNCHANGED <<charges, adrift, cycles, now, faults, payments>>
  BY DEF Serving, ApiStep, CreateSubscription, ReadForUpdate, CancelNow, CancelAtEnd, Pause,
         Resume, Reply, cycleVars, tables
<1>2. \A s \in Subs :
        \/ subs'[s].start = subs[s].start /\ subs'[s].end = subs[s].end
        \/ ~Exists(s) /\ subs'[s].start < subs'[s].end /\ subs'[s].start >= subs[s].start
  BY ServingKeepsRows
<1>3. \A s \in Subs : Exists(s) => Exists(s)'
  BY <1>2 DEF RowsExist
<1>4. JobsNamed' /\ CallsHaveJobs' /\ NothingYet'
  <2>1. \A s \in Subs, e \in Dates : ~Exists(s) => payments'[s][e] = payments[s][e]
    BY <1>1
  <2>2. \A b \in Cycles : cycles'[b].pc # "idle" =>
          cycles[b].pc # "idle" /\ cycles'[b].sub = cycles[b].sub
    BY <1>1
  <2>3. \A t \in Sweepers : ticks'[t].todo \subseteq ticks[t].todo
    OBVIOUS
  <2>. QED
    BY <1>3, <2>1, <2>2, <2>3, JobsStand
<1>t. /\ faults \in Nat /\ \A s \in Subs, e \in Dates : Sent(s, e) \in Nat
      /\ \A s \in Subs : subs[s].end \in Dates /\ subs'[s].end \in Dates
  <2>1. TablesTypeOK /\ TablesTypeOK'
    BY DEF ServiceInv, ServiceTypeOK, TypeOK
  <2>2. \A s \in Subs : subs[s].end \in Dates /\ subs'[s].end \in Dates
    BY <2>1, SMT DEF TablesTypeOK, Subscription
  <2>. QED
    BY <2>2, QueueTypes
<1>5. \A s \in Subs, e \in Dates : Sent(s, e)' = Sent(s, e)
  BY <1>1 DEF Sent
<1>6. ASSUME NEW s \in Subs, subs'[s].end = subs[s].end PROVE Counted(s)'
  <2>1. ASSUME NEW k \in Dates PROVE NoMoreChance(s, k)
    <3>1. Known(s, k)' => Known(s, k)
      BY <1>1, <1>6 DEF Known, Sub, End
    <3>2. JobOf(s, k)' = JobOf(s, k) /\ \A pc : Walk(pc, pc)
      BY DEF JobOf, Walk
    <3>. QED
      BY <1>1, <3>1, <3>2, JobStands
  <2>2. \A e \in Dates : Sent(s, e)' + faults <= Sent(s, e) + faults'
    <3> SUFFICES ASSUME NEW e \in Dates PROVE Sent(s, e)' + faults <= Sent(s, e) + faults'
      OBVIOUS
    <3>. QED
      BY <1>1, <1>t, <1>5, SMT
  <2>3. faults' >= faults
    BY <1>1, <1>t, SMT
  <2>. QED
    BY <1>6, <2>1, <2>2, <2>3, QuietCounts
<1>7. ASSUME NEW s \in Subs, ~Exists(s) PROVE Counted(s)'
  <2>1. \A k \in Dates : /\ Absent(s, k) /\ payments[s][k] = "NONE"
                         /\ \A t \in Sweepers : <<s, k>> \notin ticks[t].todo
    BY <1>7 DEF CountInv, NothingYet
  <2>2. \A k \in Dates : Absent(s, k)'
    BY <2>1 DEF Absent, JobOf
  <2>3. ASSUME NEW c \in Cycles, cycles'[c].pc \in OpenPcs, cycles'[c].sub = s PROVE FALSE
    BY <1>1, <1>7, <2>3 DEF RowsExist, Sub
  <2>4. ASSUME NEW k \in Dates, Chance(s, k)' PROVE k = subs'[s].end
    <3>1. Known(s, k)'
      BY <2>2, <2>4 DEF Chance, Absent, Runs
    <3>. QED
      BY <1>1, <2>1, <2>3, <3>1 DEF Known, Sub, End
  <2>5. \A k \in Dates, e \in Dates : ~Tries(s, k, e)'
    BY <2>2 DEF Tries, Runs, Absent
  <2>6. ASSUME NEW e \in Dates PROVE Sent(s, e)' = 0
    <3>1. ~(charges[s][e] > 0) /\ ~(adrift[s][e] > 0)
      BY <2>1 DEF TraceInv, ChargeLeavesTrace, SentIsWritten
    <3>2. charges[s][e] \in Nat /\ adrift[s][e] \in Nat
      BY DEF CycleTypeOK
    <3>3. Sent(s, e) = 0
      BY <3>1, <3>2, SMT DEF Sent
    <3>. QED
      BY <1>5, <3>3
  <2>7. PICK z \in Dates : subs'[s].end = z
    BY <1>t
  <2>. QED
    BY <1>1, <1>t, <2>4, <2>5, <2>6, <2>7, CountsBegin
<1>. QED
  BY <1>2, <1>4, <1>6, <1>7 DEF CountInv

LEMMA NextCounts ==
  ASSUME SchedulerOnly, ServiceInv, ServiceInv', RowsExist, RowsExist', TraceInv, SentIsWritten,
         CountInv, [ServiceNext]_serviceVars
  PROVE  CountInv'
<1>. TypeOK /\ CycleTypeOK
  BY DEF ServiceInv, ServiceTypeOK, TypeOK
<1>t. /\ faults \in Nat /\ now \in Nat /\ \A s \in Subs, e \in Dates : Sent(s, e) \in Nat
  BY QueueTypes
<1>s. ASSUME UNCHANGED <<charges, adrift>>
      PROVE  \A s \in Subs, e \in Dates : Sent(s, e)' <= Sent(s, e)
  <2>1. \A s \in Subs, e \in Dates : Sent(s, e)' = Sent(s, e)
    BY <1>s DEF Sent
  <2>. QED
    BY <1>t, <2>1, SMT
<1>f. faults >= faults
  BY <1>t, SMT
<1>1. ASSUME NEW t \in Sweepers, BeginSweep(t) \/ SweepOn(t) \/ AbortTick(t) PROVE CountInv'
  <2>1. /\ Sweeping(t) \/ UNCHANGED vars
        /\ UNCHANGED <<charges, adrift, cycles, jobs, payments>>
    BY <1>1 DEF BeginSweep, SweepOn, AbortTick, Sweeping, SweepStep, FindExpired, CancelExpired,
                EmitCancelled, AbortSweep, vars, cycleVars, tables
  <2>2. \A s \in Subs : subs'[s].start = subs[s].start /\ subs'[s].end = subs[s].end
    BY <2>1, SweepingKeepsRows DEF vars
  <2>3. faults' >= faults
    BY <1>t, <2>1, SMT DEF Sweeping, SweepStep, FindExpired, CancelExpired, EmitCancelled,
                           AbortSweep, Fault, vars
  <2>4. \A u \in Sweepers : ticks'[u].todo \subseteq ticks[u].todo
    BY <1>1 DEF BeginSweep, SweepOn, AbortTick, IdleTick, ServiceInv, ServiceTypeOK
  <2>5. \A s \in Subs : Exists(s) => Exists(s)'
    BY <2>2 DEF RowsExist
  <2>. QED
    BY <1>s, <2>1, <2>2, <2>3, <2>4, <2>5, QuietStep
<1>2. ASSUME NEW j \in JobIds, Evict(j) PROVE FALSE
  BY <1>2 DEF Evict, SchedulerOnly
<1>3. ASSUME NEW m \in Manual PROVE FALSE
  BY <1>3 DEF SchedulerOnly
<1>4. ASSUME NEW c \in Cycles, RunInline(c) PROVE FALSE
  <2>1. /\ \A j \in JobIds : jobs[j].by # c
        /\ cycles[c].pc # "idle"
    BY <1>4 DEF RunInline, SchedulerOnly, Finish
  <2>2. PICK k \in Dates : JobOf(Sub(c), k).by = c
    BY <2>1 DEF CountInv, CallsHaveJobs, At
  <2>3. Sub(c) \in Subs
    BY <2>1 DEF CountInv, CallsHaveJobs, At
  <2>. QED
    BY <2>1, <2>2, <2>3 DEF JobOf, JobIds, Scheduled
<1>5. CASE Settling /\ UNCHANGED <<jobs, ticks>>
  <2>1. UNCHANGED <<subs, payments, faults, cycles>>
    BY <1>5, SettlingType
  <2>2. \A s \in Subs, e \in Dates : Sent(s, e)' <= Sent(s, e)
    BY <1>5, SettlingLowers
  <2>. QED
    BY <1>f, <1>5, <2>1, <2>2, QuietStep DEF Exists
<1>6. CASE (Passing /\ UNCHANGED <<jobs, ticks>>) \/ UNCHANGED serviceVars
  <2>1. UNCHANGED <<subs, payments, faults, cycles, charges, adrift, jobs, ticks>>
    BY <1>6 DEF Passing, tables, cycleVars, serviceVars, vars
  <2>. QED
    BY <1>f, <1>s, <2>1, QuietStep DEF Exists
<1>7. CASE \/ \E t \in Sweepers : ReadDue(t) \/ AddJob(t)
           \/ \E j \in JobIds : FinishJob(j) \/ RecoverJob(j)
           \/ \E j \in JobIds, c \in Cycles : TakeJob(j, c)
  BY <1>7, ReadCounts, AddCounts, FinishCounts, RecoverCounts, TakeCounts
<1>8. CASE \/ \E c \in Cycles : Working(c) \/ CrashWorker(c)
           \/ Serving /\ UNCHANGED <<jobs, ticks>>
  BY <1>8, CallCountsKept, CrashCounts, ServingCounts
<1>. QED
  BY <1>1, <1>2, <1>3, <1>4, <1>5, <1>6, <1>7, <1>8 DEF ServiceNext

LEMMA InitCounts == ServiceInit => CountInv
<1> SUFFICES ASSUME ServiceInit PROVE CountInv
  OBVIOUS
<1>1. /\ \A c \in Cycles : cycles[c].pc = "idle"
      /\ \A s \in Subs, e \in Dates : Sent(s, e) = 0 /\ payments[s][e] = "NONE"
      /\ \A s \in Subs : ~Exists(s) /\ subs[s].end = 0
      /\ \A s \in Subs, e \in Dates : Absent(s, e)
      /\ \A t \in Sweepers : ticks[t].todo = {}
      /\ faults = 0
  BY SMT DEF ServiceInit, Init, TablesInit, CycleInit, IdleCycle, Sent, Exists, NoSubscription,
             NoJob, JobIds, Scheduled, IdleTick, Absent, JobOf
<1>2. JobsNamed /\ CallsHaveJobs /\ NothingYet
  BY <1>1 DEF JobsNamed, CallsHaveJobs, NothingYet, At
<1>3. ASSUME NEW s \in Subs PROVE Counted(s)
  <2>1. \A k \in Dates : Chance(s, k) => k = 0
    BY <1>1 DEF Chance, Known, Runs, Absent, OpenPcs, LivePcs
  <2>2. 0 \in Dates /\ {0} \subseteq Dates
    BY TablesAssumption, SMT DEF Dates
  <2>3. ASSUME NEW A, A \subseteq {0} PROVE Cardinality(A) \in Nat /\ Cardinality(A) <= 1
    <3>1. Cardinality({0}) = 1
      BY FS_Singleton
    <3>2. Cardinality(A) \in Nat /\ Cardinality(A) <= Cardinality({0})
      BY <2>2, <2>3, NoMore
    <3>. QED
      BY <3>1, <3>2
  <2>4. Cardinality(Chances(s)) <= 1 + faults
    <3>1. Chances(s) \subseteq {0}
      BY <2>1 DEF Chances
    <3>. QED
      BY <1>1, <2>3, <3>1
  <2>5. ASSUME NEW e \in Dates
        PROVE  /\ Sent(s, e) + Cardinality(Triers(s, e)) <= 1 + faults
               /\ Sent(s, e) + Cardinality(Others(s, e)) <= 1 + faults
               /\ Sent(s, e) + Cardinality(Coming(s, e)) <= 2 + faults
    <3>1. Triers(s, e) \subseteq {0} /\ Others(s, e) \subseteq {0}
      BY <1>1, <2>1 DEF Triers, Others, Tries, Runs, Absent
    <3>2. Coming(s, e) \subseteq {0} \cup {NextPeriod(e)} /\ Coming(s, e) \subseteq Dates
      BY <2>1 DEF Coming
    <3>3. /\ Cardinality(Coming(s, e)) \in Nat /\ Cardinality({0}) \in Nat
          /\ Cardinality(Coming(s, e)) <= Cardinality({0}) + 1
      BY <2>2, <3>2, OneMoreAtMost
    <3>4. Cardinality({0}) <= 1
      BY <2>3
    <3>5. Cardinality(Triers(s, e)) \in Nat /\ Cardinality(Triers(s, e)) <= 1
          /\ Cardinality(Others(s, e)) \in Nat /\ Cardinality(Others(s, e)) <= 1
      BY <2>3, <3>1
    <3>6. Sent(s, e) = 0 /\ faults = 0
      BY <1>1
    <3>. QED
      BY <3>3, <3>4, <3>5, <3>6, SMT
  <2>. QED
    BY <2>4, <2>5 DEF Counted
<1>. QED
  BY <1>2, <1>3 DEF CountInv

\* The whole invariant: what the engine keeps of its rows, and the counts.
ChargeInv == ServiceInv /\ RowsExist /\ TraceInv /\ SentIsWritten /\ CountInv

LEMMA ChargeInvariant ==
  ASSUME SchedulerOnly
  PROVE  ServiceSafety => []ChargeInv
<1>1. ServiceInit => ChargeInv
  BY InitServiceType, InitRows, InitTrace, InitCounts DEF ServiceInit, ChargeInv
<1>2. ChargeInv /\ [ServiceNext]_serviceVars => ChargeInv'
  <2> SUFFICES ASSUME ChargeInv, [ServiceNext]_serviceVars PROVE ChargeInv'
    OBVIOUS
  <2>. ServiceInv /\ RowsExist /\ TraceInv /\ SentIsWritten /\ CountInv
    BY DEF ChargeInv
  <2>1. ServiceInv'
    BY NextServiceInv
  <2>2. RowsExist' /\ TraceInv' /\ SentIsWritten'
    BY StepOfEngine, NextRows, NextTrace DEF ServiceInv, ServiceTypeOK
  <2>3. CountInv'
    BY <2>1, <2>2, NextCounts
  <2>. QED
    BY <2>1, <2>2, <2>3 DEF ChargeInv
<1>. QED
  BY <1>1, <1>2, PTL DEF ServiceSafety

\* Client money: a period is charged at most once more than things failed.  Each charge
\* took a job's chance, and only a failure gives a chance back.
THEOREM OverchargesAreFailures == SchedulerOnly => (ServiceSafety => []OverchargesNeedFaults)
<1> SUFFICES ASSUME SchedulerOnly PROVE ServiceSafety => []OverchargesNeedFaults
  OBVIOUS
<1>1. ChargeInv => OverchargesNeedFaults
  <2> SUFFICES ASSUME ChargeInv, NEW s \in Subs, NEW e \in Dates PROVE Sent(s, e) <= 1 + faults
    BY DEF OverchargesNeedFaults, Sent
  <2>1. Sent(s, e) + Cardinality(Triers(s, e)) <= 1 + faults
    BY DEF ChargeInv, CountInv, Counted
  <2>2. Cardinality(Triers(s, e)) \in Nat
    <3>1. Triers(s, e) \subseteq Dates
      BY DEF Triers
    <3>. QED
      BY <3>1, DatesFinite
  <2>3. faults \in Nat /\ Sent(s, e) \in Nat
    BY QueueTypes DEF ChargeInv
  <2>. QED
    BY <2>1, <2>2, <2>3, SMT
<1>. QED
  BY <1>1, ChargeInvariant, PTL

-----------------------------------------------------------------------------
(* Charges before the period has ended.  A job is named after a period      *)
(* that had ended when the tick read it, so a period that is charged early  *)
(* is charged by the job of an earlier one, while its own job is still to   *)
(* come: it has a chance that nobody has used.  Those chances and that of   *)
(* the job which charges are all among the 1 + faults of Counted.           *)

\* Jobs are named after periods that have ended.
JobsAfterEnd ==
  \A s \in Subs, k \in Dates :
    ~Absent(s, k) \/ (\E t \in Sweepers : <<s, k>> \in ticks[t].todo) => k <= now

Early(s) == {e \in Dates : Sent(s, e) > 0 /\ ~(e <= now)}

EarlyInv == JobsAfterEnd /\ \A s \in Subs : Cardinality(Early(s)) <= faults

\* The clock and the failures only grow.
LEMMA TimePasses ==
  ASSUME ServiceInv, [ServiceNext]_serviceVars
  PROVE  /\ now \in Nat /\ now' \in Nat /\ now' >= now
         /\ faults \in Nat /\ faults' \in Nat /\ faults' >= faults
<1>1. now \in Nat /\ faults \in Nat
  BY QueueTypes
<1>2. now' = now \/ now' = now + 1
  <2>1. [Next]_vars
    BY StepOfEngine
  <2>. QED
    BY <2>1, Zenon DEF Next, Billing, CycleStep, CycleFault, Sweeping, Serving, Settling, Passing, Tick,
         vars, Start, FindPayment, CreatePayment, Dispatch, MarkMock, MarkProcessing, InvokePaid,
         InvokeFailed, InvokeError, InvokeLate, InvokeUnread, RecordPaid, RecordFailure, Advance,
         Emit, EnterGrace, MarkRetrying, StoreRetry, Reject, Crash, Finish, SweepStep,
         FindExpired, CancelExpired, EmitCancelled, AbortSweep, ApiStep, CreateSubscription,
         ReadForUpdate, CancelNow, CancelAtEnd, Pause, Resume, Reply, ChainStep, Land, Lapse
<1>3. faults' = faults \/ faults' = faults + 1
  <2>1. [Next]_vars
    BY StepOfEngine
  <2>. QED
    BY <2>1, Zenon DEF Next, Billing, CycleStep, CycleFault, Sweeping, Serving, Settling, Passing, Fault,
         vars, Start, FindPayment, CreatePayment, Dispatch, MarkMock, MarkProcessing, InvokePaid,
         InvokeFailed, InvokeError, InvokeLate, InvokeUnread, RecordPaid, RecordFailure, Advance,
         Emit, EnterGrace, MarkRetrying, StoreRetry, Reject, Crash, Finish, SweepStep,
         FindExpired, CancelExpired, EmitCancelled, AbortSweep, ApiStep, CreateSubscription,
         ReadForUpdate, CancelNow, CancelAtEnd, Pause, Resume, Reply, ChainStep, Land, Lapse
<1>. QED
  BY <1>1, <1>2, <1>3, SMT

LEMMA JobsComeAfterEnd ==
  ASSUME SchedulerOnly, ServiceInv, JobsAfterEnd, [ServiceNext]_serviceVars
  PROVE  JobsAfterEnd'
<1>t. now \in Nat /\ now' \in Nat /\ now' >= now
  BY TimePasses
<1>1. ASSUME \A s \in Subs, k \in Dates :
               /\ ~Absent(s, k)' => ~Absent(s, k) \/ \E t \in Sweepers : <<s, k>> \in ticks[t].todo
               /\ \A t \in Sweepers :
                    <<s, k>> \in ticks'[t].todo => <<s, k>> \in ticks[t].todo \/ k <= now
      PROVE  JobsAfterEnd'
  <2>1. ASSUME NEW s \in Subs, NEW k \in Dates,
               ~Absent(s, k)' \/ \E t \in Sweepers : <<s, k>> \in ticks'[t].todo
        PROVE  k <= now'
    <3>1. k <= now /\ k \in Int
      BY <1>1, <2>1, QueueTypes DEF JobsAfterEnd
    <3>. QED
      BY <1>t, <3>1, SMT
  <2>. QED
    BY <2>1 DEF JobsAfterEnd
<1>2. ASSUME NEW t \in Sweepers, ReadDue(t) PROVE JobsAfterEnd'
  <2>1. /\ UNCHANGED jobs
        /\ \A u \in Sweepers :
             \/ ticks'[u] = ticks[u]
             \/ ticks'[u].todo = {<<s, subs[s].end>> : s \in {x \in Subs : Due(x)}}
    BY <1>2 DEF ReadDue, ServiceInv, ServiceTypeOK
  <2>2. \A s \in Subs : Due(s) => subs[s].end <= now
    BY DEF Due
  <2>. QED
    BY <1>1, <2>1, <2>2 DEF Absent, JobOf
<1>3. ASSUME NEW t \in Sweepers, AddJob(t) PROVE JobsAfterEnd'
  <2>1. PICK i \in ticks[t].todo :
          /\ ticks' = [ticks EXCEPT ![t].todo = @ \ {i}]
          /\ jobs' = IF jobs[i] = NoJob THEN [jobs EXCEPT ![i] = NewJob(i[1])] ELSE jobs
    BY <1>3 DEF AddJob
  <2>2. \A u \in Sweepers : ticks'[u].todo \subseteq ticks[u].todo
    BY <2>1 DEF ServiceInv, ServiceTypeOK
  <2>3. \A s \in Subs, k \in Dates : <<s, k>> # i => JobOf(s, k)' = JobOf(s, k)
    BY <2>1 DEF JobOf, ServiceInv, ServiceTypeOK, JobIds, Scheduled
  <2>. QED
    BY <1>1, <2>1, <2>2, <2>3 DEF Absent
<1>4. ASSUME NEW i \in JobIds, jobs[i].state # "absent", UNCHANGED ticks,
             \A k \in JobIds \ {i} : jobs'[k] = jobs[k]
      PROVE  JobsAfterEnd'
  BY <1>1, <1>4 DEF Absent, JobOf, JobIds, Scheduled
<1>5. ASSUME NEW j \in JobIds, FinishJob(j) \/ RecoverJob(j) PROVE JobsAfterEnd'
  BY <1>4, <1>5 DEF FinishJob, RecoverJob, ServiceInv, ServiceTypeOK
<1>6. ASSUME NEW j \in JobIds, NEW c \in Cycles, TakeJob(j, c) PROVE JobsAfterEnd'
  BY <1>4, <1>6 DEF TakeJob, ServiceInv, ServiceTypeOK
<1>7. ASSUME NEW c \in Cycles, CrashWorker(c) PROVE JobsAfterEnd'
  <2>1. UNCHANGED ticks /\ \A j \in JobIds : jobs'[j] = jobs[j] \/ jobs[j].by = c
    BY <1>7 DEF CrashWorker
  <2>2. \A j \in JobIds : jobs[j].by = c => jobs[j].state = "active"
    BY CycleAssumption DEF ServiceInv, JobsOwnCalls
  <2>. QED
    BY <1>1, <2>1, <2>2 DEF Absent, JobOf, JobIds, Scheduled
<1>8. ASSUME UNCHANGED jobs, \A t \in Sweepers : ticks'[t].todo \subseteq ticks[t].todo
      PROVE  JobsAfterEnd'
  BY <1>1, <1>8 DEF Absent, JobOf
<1>9. ASSUME NEW t \in Sweepers, BeginSweep(t) \/ SweepOn(t) \/ AbortTick(t) PROVE JobsAfterEnd'
  BY <1>8, <1>9 DEF BeginSweep, SweepOn, AbortTick, IdleTick, ServiceInv, ServiceTypeOK
<1>10. CASE \/ \E c \in Cycles : Working(c) \/ RunInline(c)
            \/ Serving /\ UNCHANGED <<jobs, ticks>>
            \/ Settling /\ UNCHANGED <<jobs, ticks>>
            \/ Passing /\ UNCHANGED <<jobs, ticks>>
            \/ UNCHANGED serviceVars
  BY <1>8, <1>10 DEF Working, RunInline, serviceVars
<1>11. ASSUME NEW j \in JobIds, Evict(j) PROVE FALSE
  BY <1>11 DEF Evict, SchedulerOnly
<1>12. ASSUME NEW m \in Manual PROVE FALSE
  BY <1>12 DEF SchedulerOnly
<1>. QED
  BY <1>2, <1>3, <1>5, <1>6, <1>7, <1>9, <1>10, <1>11, <1>12 DEF ServiceNext

\* What a call sends early is one of the chances, and the job of the call is another.
LEMMA SendingIsBounded ==
  ASSUME ServiceInv, ServiceInv', TraceInv, SentIsWritten, CountInv, EarlyInv,
         NEW c \in Cycles, At(c, "invoke"), now' = now, faults' \in Nat, faults' >= faults,
         \A s \in Subs, e \in Dates : s # Sub(c) \/ e # End(c) => Sent(s, e)' = Sent(s, e)
  PROVE  \A s \in Subs : Cardinality(Early(s)') <= faults'
<1>. CycleTypeOK
  BY DEF ServiceInv, ServiceTypeOK, TypeOK
<1>t. faults \in Nat
  BY QueueTypes
<1>1. ASSUME NEW s \in Subs, s # Sub(c) PROVE Cardinality(Early(s)') <= faults'
  <2>1. Early(s)' = Early(s) /\ Early(s) \subseteq Dates
    BY <1>1 DEF Early
  <2>2. Cardinality(Early(s)) <= faults /\ Cardinality(Early(s)) \in Nat
    BY <2>1, DatesFinite DEF EarlyInv
  <2>. QED
    BY <1>t, <2>1, <2>2, SMT
<1>2. ASSUME NEW s \in Subs, s = Sub(c) PROVE Cardinality(Early(s)') <= faults'
  <2>1. PICK j \in Dates : JobOf(s, j).state = "active" /\ JobOf(s, j).by = c
    BY <1>2 DEF CountInv, CallsHaveJobs, At
  <2>2. j \in Chances(s) /\ ~Absent(s, j) /\ Chances(s) \subseteq Dates
    BY <2>1 DEF Chances, Chance, Runs, Trying, Absent, At
  <2>3. ASSUME NEW e \in Early(s)' PROVE e \in Chances(s) \ {j}
    <3>1. e \in Dates /\ ~(e <= now)
      BY <2>3 DEF Early
    <3>2. Absent(s, e)
      BY <3>1 DEF EarlyInv, JobsAfterEnd
    <3>3. payments[s][e] # "NONE"
      <4>1. CASE e = End(c)
        BY <1>2, <4>1 DEF TraceInv, WrittenAhead, At, LivePcs, Row
      <4>2. CASE e # End(c)
        <5>1. Sent(s, e) > 0
          BY <2>3, <3>1, <4>2 DEF Early
        <5>2. charges[s][e] \in Nat /\ adrift[s][e] \in Nat
          BY <3>1 DEF CycleTypeOK
        <5>3. charges[s][e] > 0 \/ adrift[s][e] > 0
          BY <5>1, <5>2, SMT DEF Sent
        <5>. QED
          BY <3>1, <5>3 DEF TraceInv, ChargeLeavesTrace, SentIsWritten
      <4>. QED
        BY <4>1, <4>2
    <3>. QED
      BY <2>2, <3>1, <3>2, <3>3 DEF Chances, Chance, Known
  <2>4. Early(s)' \subseteq Chances(s) \ {j}
    BY <2>3
  <2>5. /\ Cardinality(Early(s)') \in Nat /\ Cardinality(Chances(s)) \in Nat
        /\ Cardinality(Early(s)') + 1 <= Cardinality(Chances(s))
    BY <2>2, <2>4, OneLess
  <2>6. Cardinality(Chances(s)) <= 1 + faults
    BY DEF CountInv, Counted
  <2>. QED
    BY <1>t, <2>5, <2>6, SMT
<1>. QED
  BY <1>1, <1>2

LEMMA NextEarly ==
  ASSUME SchedulerOnly, ServiceInv, ServiceInv', TraceInv, SentIsWritten, CountInv, EarlyInv,
         [ServiceNext]_serviceVars
  PROVE  EarlyInv'
<1>. TypeOK /\ CycleTypeOK
  BY DEF ServiceInv, ServiceTypeOK, TypeOK
<1>t. /\ now \in Nat /\ now' \in Nat /\ now' >= now
      /\ faults \in Nat /\ faults' \in Nat /\ faults' >= faults
  BY TimePasses
<1>1. JobsAfterEnd'
  BY JobsComeAfterEnd DEF EarlyInv
<1>2. ASSUME \A s \in Subs, e \in Dates : Sent(s, e)' <= Sent(s, e)
      PROVE  \A s \in Subs : Cardinality(Early(s)') <= faults'
  <2> SUFFICES ASSUME NEW s \in Subs PROVE Cardinality(Early(s)') <= faults'
    OBVIOUS
  <2>1. ASSUME NEW e \in Dates, Sent(s, e)' > 0, ~(e <= now')
        PROVE  Sent(s, e) > 0 /\ ~(e <= now)
    <3>1. Sent(s, e) \in Nat /\ Sent(s, e)' \in Nat /\ e \in Int
      BY QueueTypes, SentTypes
    <3>2. Sent(s, e)' <= Sent(s, e)
      BY <1>2
    <3>. QED
      BY <1>t, <2>1, <3>1, <3>2, SMT
  <2>2. Early(s)' \subseteq Early(s) /\ Early(s) \subseteq Dates
    BY <2>1 DEF Early
  <2>3. /\ Cardinality(Early(s)') \in Nat /\ Cardinality(Early(s)) \in Nat
        /\ Cardinality(Early(s)') <= Cardinality(Early(s))
    BY <2>2, NoMore
  <2>. QED
    BY <1>t, <2>3, SMT DEF EarlyInv
<1>3. ASSUME UNCHANGED <<charges, adrift>> PROVE EarlyInv'
  <2>1. ASSUME NEW s \in Subs, NEW e \in Dates PROVE Sent(s, e)' <= Sent(s, e)
    <3>1. Sent(s, e)' = Sent(s, e) /\ Sent(s, e) \in Nat
      BY <1>3, QueueTypes DEF Sent
    <3>. QED
      BY <3>1, SMT
  <2>. QED
    BY <1>1, <1>2, <2>1 DEF EarlyInv
<1>4. ASSUME NEW c \in Cycles, At(c, "invoke"), UNCHANGED now,
             Charged(c) \/ UNCHANGED charges, Adrift(c) \/ UNCHANGED adrift
      PROVE  EarlyInv'
  <2>1. ASSUME NEW s \in Subs, NEW e \in Dates, s # Sub(c) \/ e # End(c)
        PROVE  charges'[s][e] = charges[s][e] /\ adrift'[s][e] = adrift[s][e]
    BY <1>4, <2>1, OpenCycle, SMT DEF Charged, Adrift, CycleTypeOK, At, OpenPcs, LivePcs
  <2>. QED
    BY <1>1, <1>4, <1>t, <2>1, SendingIsBounded DEF EarlyInv, Sent
<1>5. ASSUME NEW c \in Cycles, Working(c) PROVE EarlyInv'
  <2>1. CASE InvokePaid(c) /\ UNCHANGED adrift
    BY <1>4, <2>1 DEF InvokePaid
  <2>2. CASE InvokeLate(c)
    BY <1>4, <2>2 DEF InvokeLate
  <2>3. CASE \/ CycleStep(c) /\ ~InvokePaid(c)
             \/ (InvokeUnread(c) \/ Reject(c)) /\ UNCHANGED adrift
    BY <1>3, <2>3 DEF CycleStep, FindPayment, CreatePayment, Dispatch, MarkMock, MarkProcessing,
       InvokeFailed, InvokeError, InvokeUnread, RecordPaid, RecordFailure, Advance, Emit,
       EnterGrace, MarkRetrying, StoreRetry, Reject
  <2>4. CycleStep(c) => UNCHANGED adrift
    BY DEF CycleStep
  <2>. QED
    BY <1>5, <2>1, <2>2, <2>3, <2>4 DEF Working, CycleFault
<1>6. ASSUME NEW c \in Cycles, CrashWorker(c) PROVE EarlyInv'
  BY <1>3, <1>4, <1>6 DEF CrashWorker, Crash
<1>7. CASE Settling
  BY <1>1, <1>2, <1>7, SettlingLowers DEF EarlyInv
<1>8. ASSUME NEW m \in Manual PROVE FALSE
  BY <1>8 DEF SchedulerOnly
<1>9. ASSUME NEW t \in Sweepers,
             \/ ReadDue(t) \/ AddJob(t) \/ BeginSweep(t) \/ SweepOn(t) \/ AbortTick(t)
      PROVE  EarlyInv'
  BY <1>3, <1>9 DEF ReadDue, AddJob, BeginSweep, SweepOn, AbortTick, vars, cycleVars
<1>10. ASSUME NEW j \in JobIds, FinishJob(j) \/ RecoverJob(j) \/ Evict(j) PROVE EarlyInv'
  BY <1>3, <1>10 DEF FinishJob, RecoverJob, Evict, Finish, vars
<1>11. ASSUME NEW j \in JobIds, NEW c \in Cycles, TakeJob(j, c) PROVE EarlyInv'
  BY <1>3, <1>11 DEF TakeJob, Start
<1>12. ASSUME NEW c \in Cycles, RunInline(c) PROVE EarlyInv'
  BY <1>3, <1>12 DEF RunInline, Start, Finish
<1>13. CASE Serving \/ Passing \/ UNCHANGED serviceVars
  BY <1>3, <1>13 DEF Serving, Passing, serviceVars, vars, cycleVars
<1>. QED
  BY <1>5, <1>6, <1>7, <1>8, <1>9, <1>10, <1>11, <1>12, <1>13 DEF ServiceNext

LEMMA InitEarly == ServiceInit => EarlyInv
<1> SUFFICES ASSUME ServiceInit PROVE EarlyInv
  OBVIOUS
<1>1. /\ \A s \in Subs, e \in Dates : Sent(s, e) = 0
      /\ \A s \in Subs, e \in Dates : Absent(s, e)
      /\ \A t \in Sweepers : ticks[t].todo = {}
      /\ faults = 0
  BY SMT DEF ServiceInit, Init, TablesInit, CycleInit, Sent, NoJob, JobIds, Scheduled, IdleTick,
             Absent, JobOf
<1>2. \A s \in Subs : Early(s) = {}
  BY <1>1, SMT DEF Early
<1>. QED
  BY <1>1, <1>2, FS_EmptySet, SMT DEF EarlyInv, JobsAfterEnd

\* Client money: what is charged before its time is at most one period of a subscription
\* for each thing that failed.
THEOREM EarlyChargesAreFailures == SchedulerOnly => (ServiceSafety => []EarlyChargesNeedFaults)
<1> SUFFICES ASSUME SchedulerOnly PROVE ServiceSafety => []EarlyChargesNeedFaults
  OBVIOUS
<1>1. EarlyInv /\ ChargeInv /\ [ServiceNext]_serviceVars /\ ChargeInv' => EarlyInv'
  BY NextEarly DEF ChargeInv
<1>2. EarlyInv /\ ChargeInv => EarlyChargesNeedFaults
  <2> SUFFICES ASSUME EarlyInv, ChargeInv, NEW s \in Subs
               PROVE  Cardinality({e \in Dates : charges[s][e] > 0 /\ e > now}) <= faults
    BY DEF EarlyChargesNeedFaults
  <2>. DEFINE A == {e \in Dates : charges[s][e] > 0 /\ e > now}
  <2>1. ASSUME NEW e \in Dates, charges[s][e] > 0, e > now
        PROVE  Sent(s, e) > 0 /\ ~(e <= now)
    <3>1. charges[s][e] \in Nat /\ adrift[s][e] \in Nat /\ e \in Int /\ now \in Nat
      BY QueueTypes DEF ChargeInv, ServiceInv, ServiceTypeOK, TypeOK, CycleTypeOK
    <3>. QED
      BY <2>1, <3>1, SMT DEF Sent
  <2>2. A \subseteq Early(s) /\ Early(s) \subseteq Dates
    BY <2>1 DEF Early
  <2>. HIDE DEF A
  <2>3. /\ Cardinality(A) \in Nat /\ Cardinality(Early(s)) \in Nat
        /\ Cardinality(A) <= Cardinality(Early(s))
    BY <2>2, NoMore
  <2>4. Cardinality(Early(s)) <= faults /\ faults \in Nat
    BY QueueTypes DEF EarlyInv, ChargeInv
  <2>5. Cardinality(A) <= faults
    BY <2>3, <2>4, SMT
  <2>. QED
    BY <2>5 DEF A
<1>. QED
  BY <1>1, <1>2, InitEarly, ChargeInvariant, PTL DEF ServiceSafety
=============================================================================
