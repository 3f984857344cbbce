-------------------------- MODULE PlanCatalogProofs --------------------------
(***************************************************************************)
(* The tables of plans, wallets and subscriptions refer to each other and  *)
(* to dates of the calendar; the day of the month on which a subscription  *)
(* is billed stays; a plan that is retired stays retired.  First of all,   *)
(* nextPeriod is a date of the calendar and lies after the date it starts  *)
(* from, for every date, interval and count.                               *)
(***************************************************************************)
EXTENDS PlanCatalog, WellFoundedInduction, TLAPS

-----------------------------------------------------------------------------
(* The calendar.                                                           *)

LEMMA LeastOf ==
  ASSUME NEW T, T \subseteq Nat, T # {}
  PROVE  \E x \in T : \A y \in T : x <= y
<1> DEFINE R == OpToRel(<, Nat)
<1>1. IsWellFoundedOn(R, Nat)
  BY NatLessThanWellFounded
<1>2. PICK x \in T : \A y \in T : ~(<<y, x>> \in R)
  <2> HIDE DEF R
  <2> QED BY <1>1, WFMin
<1>3. \A y \in T : ~(y < x)
  BY <1>2 DEF OpToRel
<1>4. QED
  BY <1>3

LEMMA MonthFacts ==
  ASSUME NEW m \in Nat
  PROVE  /\ YearOf(m) \in Nat /\ MonthOf(m) \in 1 .. 12
         /\ m = 12 * YearOf(m) + MonthOf(m) - 1
BY DEF YearOf, MonthOf

LEMMA TableFacts ==
  ASSUME NEW k \in 1 .. 12
  PROVE  /\ Lengths[k] \in 28 .. 31 /\ BeforeMonth[k] \in 0 .. 334
         /\ k = 1 => BeforeMonth[k] = 0
         /\ k < 12 => BeforeMonth[k + 1] = BeforeMonth[k] + Lengths[k]
         /\ k = 12 => BeforeMonth[k] + Lengths[k] = 365
         /\ k = 2 => Lengths[k] = 28
<1>1. CASE k = 1 BY <1>1 DEF Lengths, BeforeMonth
<1>2. CASE k = 2 BY <1>2 DEF Lengths, BeforeMonth
<1>3. CASE k = 3 BY <1>3 DEF Lengths, BeforeMonth
<1>4. CASE k = 4 BY <1>4 DEF Lengths, BeforeMonth
<1>5. CASE k = 5 BY <1>5 DEF Lengths, BeforeMonth
<1>6. CASE k = 6 BY <1>6 DEF Lengths, BeforeMonth
<1>7. CASE k = 7 BY <1>7 DEF Lengths, BeforeMonth
<1>8. CASE k = 8 BY <1>8 DEF Lengths, BeforeMonth
<1>9. CASE k = 9 BY <1>9 DEF Lengths, BeforeMonth
<1>10. CASE k = 10 BY <1>10 DEF Lengths, BeforeMonth
<1>11. CASE k = 11 BY <1>11 DEF Lengths, BeforeMonth
<1>12. CASE k = 12 BY <1>12 DEF Lengths, BeforeMonth
<1>13. QED
  BY <1>1, <1>2, <1>3, <1>4, <1>5, <1>6, <1>7, <1>8, <1>9, <1>10, <1>11, <1>12

LEMMA DaysInFacts ==
  ASSUME NEW m \in Nat
  PROVE  DaysIn(m) \in 28 .. 31
<1> DEFINE k == MonthOf(m)
<1>1. k \in 1 .. 12
  BY MonthFacts
<1>2. Lengths[k] \in 28 .. 31
  BY <1>1, TableFacts
<1>3. QED
  BY <1>2 DEF DaysIn

LEMMA LeapStep ==
  ASSUME NEW y \in Nat
  PROVE  /\ LeapsBefore(y) \in Nat
         /\ LeapsBefore(y + 1) = LeapsBefore(y) + IF IsLeap(y) THEN 1 ELSE 0
<1>1. ((y + 4) \div 4) - ((y + 3) \div 4) = IF y % 4 = 0 THEN 1 ELSE 0
  OBVIOUS
<1>2. ((y + 100) \div 100) - ((y + 99) \div 100) = IF y % 100 = 0 THEN 1 ELSE 0
  OBVIOUS
<1>3. ((y + 400) \div 400) - ((y + 399) \div 400) = IF y % 400 = 0 THEN 1 ELSE 0
  OBVIOUS
<1>4. (y % 400 = 0 => y % 100 = 0) /\ (y % 100 = 0 => y % 4 = 0)
  OBVIOUS
<1>5. LeapsBefore(y) \in Nat
  BY DEF LeapsBefore
<1>6. LeapsBefore(y + 1) = LeapsBefore(y) + IF IsLeap(y) THEN 1 ELSE 0
  BY <1>1, <1>2, <1>3, <1>4 DEF LeapsBefore, IsLeap
<1>7. QED
  BY <1>5, <1>6

\* The first of a month is as many days after that of the month before as this one has.
LEMMA MonthStep ==
  ASSUME NEW m \in Nat
  PROVE  DaysBefore(m) \in Nat /\ DaysBefore(m + 1) = DaysBefore(m) + DaysIn(m)
<1> DEFINE y == YearOf(m)
           k == MonthOf(m)
<1>1. y \in Nat /\ k \in 1 .. 12 /\ m = 12 * y + k - 1
  BY MonthFacts
<1>2. LeapsBefore(y) \in Nat /\ LeapsBefore(y + 1) = LeapsBefore(y) + IF IsLeap(y) THEN 1 ELSE 0
  BY <1>1, LeapStep
<1>3. DaysBefore(m) \in Nat
  <2> HIDE DEF y, k
  <2>1. BeforeMonth[k] \in Nat
    BY <1>1, TableFacts
  <2>2. DaysBefore(m) = 365 * y + LeapsBefore(y) + BeforeMonth[k]
                              + (IF k > 2 /\ IsLeap(y) THEN 1 ELSE 0)
    BY DEF DaysBefore, y, k
  <2>3. QED
    BY <1>1, <1>2, <2>1, <2>2
<1>4. CASE k < 12
  <2>1. YearOf(m + 1) = y /\ MonthOf(m + 1) = k + 1
    BY <1>1, <1>4 DEF YearOf, MonthOf
  <2> HIDE DEF y, k
  <2>2. BeforeMonth[k + 1] = BeforeMonth[k] + Lengths[k] /\ (k = 2 => Lengths[k] = 28)
        /\ Lengths[k] \in Nat /\ BeforeMonth[k] \in Nat
    BY <1>1, <1>4, TableFacts
  <2>3. DaysBefore(m + 1) = 365 * y + LeapsBefore(y) + BeforeMonth[k + 1]
                              + (IF k + 1 > 2 /\ IsLeap(y) THEN 1 ELSE 0)
    BY <2>1 DEF DaysBefore
  <2>4. DaysBefore(m) = 365 * y + LeapsBefore(y) + BeforeMonth[k]
                              + (IF k > 2 /\ IsLeap(y) THEN 1 ELSE 0)
    BY DEF DaysBefore, y, k
  <2>5. DaysIn(m) = IF k = 2 /\ IsLeap(y) THEN 29 ELSE Lengths[k]
    BY DEF DaysIn, y, k
  <2>6. QED
    BY <1>1, <1>2, <1>3, <2>2, <2>3, <2>4, <2>5
<1>5. CASE k = 12
  <2>1. YearOf(m + 1) = y + 1 /\ MonthOf(m + 1) = 1
    BY <1>1, <1>5 DEF YearOf, MonthOf
  <2> HIDE DEF y, k
  <2>2. BeforeMonth[k] + Lengths[k] = 365 /\ BeforeMonth[1] = 0
        /\ Lengths[k] \in Nat /\ BeforeMonth[k] \in Nat
    BY <1>1, <1>5, TableFacts
  <2>3. DaysBefore(m + 1) = 365 * (y + 1) + LeapsBefore(y + 1)
    BY <1>1, <1>2, <2>1, <2>2 DEF DaysBefore
  <2>4. DaysBefore(m) = 365 * y + LeapsBefore(y) + BeforeMonth[k] + (IF IsLeap(y) THEN 1 ELSE 0)
    BY <1>5 DEF DaysBefore, y, k
  <2>5. DaysIn(m) = Lengths[k]
    BY <1>5 DEF DaysIn, y, k
  <2>6. QED
    BY <1>1, <1>2, <1>3, <2>2, <2>3, <2>4, <2>5
<1>6. QED
  BY <1>1, <1>3, <1>4, <1>5

LEMMA NatInduct ==
  ASSUME NEW S, 0 \in S, \A n \in Nat : n \in S => n + 1 \in S
  PROVE  Nat \subseteq S
<1>1. SUFFICES ASSUME Nat \ S # {} PROVE FALSE
  OBVIOUS
<1>2. PICK x \in Nat \ S : \A y \in Nat \ S : x <= y
  BY <1>1, LeastOf
<1>3. x # 0 /\ x - 1 \in Nat /\ x - 1 \in S
  BY <1>2
<1>4. QED
  BY <1>2, <1>3

\* Between the firsts of two months lies a day at least for every month.
LEMMA MonthsGrow ==
  ASSUME NEW a \in Nat, NEW n \in Nat
  PROVE  DaysBefore(a + n) >= DaysBefore(a) + 28 * n
<1> DEFINE S == {k \in Nat : DaysBefore(a + k) >= DaysBefore(a) + 28 * k}
<1>1. 0 \in S
  BY MonthStep
<1>2. ASSUME NEW k \in Nat, k \in S PROVE k + 1 \in S
  <2>1. DaysBefore(a + k) \in Nat /\ DaysBefore(a) \in Nat
        /\ DaysBefore(a + k + 1) = DaysBefore(a + k) + DaysIn(a + k)
    BY MonthStep
  <2>2. DaysIn(a + k) >= 28
    BY DaysInFacts
  <2>3. a + k + 1 = a + (k + 1)
    OBVIOUS
  <2>4. QED
    BY <1>2, <2>1, <2>2, <2>3, DaysInFacts
<1>3. Nat \subseteq S
  <2> HIDE DEF S
  <2> QED BY <1>1, <1>2, NatInduct
<1>4. QED
  BY <1>3

LEMMA SerialType ==
  ASSUME NEW x \in Date
  PROVE  Serial(x) \in Nat
BY MonthStep DEF Serial, Date

\* There is a date n days after every date: addDays lands on it.
LEMMA DaysReach ==
  ASSUME NEW x \in Date, NEW n \in Nat
  PROVE  \E y \in [m : x.m .. x.m + n, d : 1 .. 31] :
           y.d <= DaysIn(y.m) /\ Serial(y) = Serial(x) + n
<1> DEFINE Reached(k) == {y \in [m : x.m .. x.m + k, d : 1 .. 31] :
                            y.d <= DaysIn(y.m) /\ Serial(y) = Serial(x) + k}
           S == {k \in Nat : Reached(k) # {}}
<1>0. x.m \in Nat /\ x.d \in 1 .. 31 /\ x.d <= DaysIn(x.m) /\ x = [m |-> x.m, d |-> x.d]
      /\ Serial(x) \in Nat
  BY SerialType DEF Date
<1>1. 0 \in S
  <2>1. x \in Reached(0)
    BY <1>0
  <2>2. QED
    BY <2>1
<1>2. ASSUME NEW k \in Nat, k \in S PROVE k + 1 \in S
  <2>1. PICK y \in [m : x.m .. x.m + k, d : 1 .. 31] :
          y.d <= DaysIn(y.m) /\ Serial(y) = Serial(x) + k
    BY <1>2
  <2>2. y.m \in Nat /\ y.m \in x.m .. x.m + k /\ y.d \in 1 .. 31
    BY <1>0, <2>1
  <2>3. DaysIn(y.m) \in 28 .. 31 /\ DaysIn(y.m + 1) \in 28 .. 31
    BY <2>2, DaysInFacts
  <2>4. DaysBefore(y.m) \in Nat /\ DaysBefore(y.m + 1) = DaysBefore(y.m) + DaysIn(y.m)
    BY <2>2, MonthStep
  <2>5. CASE y.d < DaysIn(y.m)
    <3> DEFINE z == [m |-> y.m, d |-> y.d + 1]
    <3>1. z \in [m : x.m .. x.m + (k + 1), d : 1 .. 31]
      BY <1>0, <2>2, <2>3, <2>5
    <3>2. Serial(z) = Serial(x) + (k + 1)
      BY <1>0, <2>1, <2>2, <2>4 DEF Serial
    <3>3. z.d <= DaysIn(z.m)
      BY <2>2, <2>3, <2>5
    <3>4. z \in Reached(k + 1)
      BY <3>1, <3>2, <3>3
    <3>5. QED
      BY <3>4
  <2>6. CASE ~(y.d < DaysIn(y.m))
    <3> DEFINE z == [m |-> y.m + 1, d |-> 1]
    <3>1. z \in [m : x.m .. x.m + (k + 1), d : 1 .. 31]
      BY <1>0, <2>2
    <3>2. Serial(z) = Serial(x) + (k + 1)
      BY <1>0, <2>1, <2>2, <2>3, <2>4, <2>6 DEF Serial
    <3>3. z.d <= DaysIn(z.m)
      BY <2>3
    <3>4. z \in Reached(k + 1)
      BY <3>1, <3>2, <3>3
    <3>5. QED
      BY <3>4
  <2>7. QED
    BY <2>5, <2>6
<1>3. Nat \subseteq S
  <2> HIDE DEF S
  <2> QED BY <1>1, <1>2, NatInduct
<1>4. QED
  BY <1>3

LEMMA AddDaysFacts ==
  ASSUME NEW x \in Date, NEW n \in Nat
  PROVE  AddDays(x, n) \in Date /\ Serial(AddDays(x, n)) = Serial(x) + n
<1> DEFINE y == AddDays(x, n)
<1>1. /\ y \in [m : x.m .. x.m + n, d : 1 .. 31]
      /\ y.d <= DaysIn(y.m) /\ Serial(y) = Serial(x) + n
  BY DaysReach DEF AddDays
<1>2. x.m \in Nat
  BY DEF Date
<1> HIDE DEF y
<1>3. y \in Date
  BY <1>1, <1>2 DEF Date
<1>4. QED
  BY <1>1, <1>3 DEF y

\* What spills over is at most three days, of a day after the 28th, and is in the month after.
LEMMA SpillFacts ==
  ASSUME NEW m \in Nat, NEW d \in 1 .. 31
  PROVE  /\ Spill(m, d) \in Date
         /\ Serial(Spill(m, d)) = DaysBefore(m) + d
         /\ \/ Spill(m, d) = [m |-> m, d |-> d]
            \/ Spill(m, d).m = m + 1 /\ Spill(m, d).d <= 3 /\ d >= 29
<1>1. DaysIn(m) \in 28 .. 31 /\ DaysIn(m + 1) \in 28 .. 31
  BY DaysInFacts
<1>2. DaysBefore(m) \in Nat /\ DaysBefore(m + 1) = DaysBefore(m) + DaysIn(m)
  BY MonthStep
<1>3. CASE d <= DaysIn(m)
  BY <1>1, <1>3 DEF Spill, Serial, Date
<1>4. CASE ~(d <= DaysIn(m))
  <2>1. Spill(m, d) = [m |-> m + 1, d |-> d - DaysIn(m)]
    BY <1>4 DEF Spill
  <2>2. d - DaysIn(m) \in 1 .. 3 /\ d >= 29
    BY <1>1, <1>4
  <2>3. QED
    BY <1>1, <1>2, <2>1, <2>2 DEF Serial, Date
<1>5. QED
  BY <1>3, <1>4

LEMMA MonthsForward ==
  ASSUME NEW x \in Date, NEW n \in Nat \ {0}
  PROVE  Spill(x.m + n, x.d) \in Date /\ Serial(Spill(x.m + n, x.d)) > Serial(x)
<1>1. x.m \in Nat /\ x.d \in 1 .. 31 /\ x.m + n \in Nat
  BY DEF Date
<1>2. Spill(x.m + n, x.d) \in Date /\ Serial(Spill(x.m + n, x.d)) = DaysBefore(x.m + n) + x.d
  BY <1>1, SpillFacts
<1>3. DaysBefore(x.m + n) >= DaysBefore(x.m) + 28 * n
  BY <1>1, MonthsGrow
<1>4. DaysBefore(x.m) \in Nat /\ DaysBefore(x.m + n) \in Nat
  BY <1>1, MonthStep
<1>5. QED
  BY <1>1, <1>2, <1>3, <1>4 DEF Serial

\* The end of a period is a date of the calendar, later than its start: a subscription
\* that has been charged is not due again at once, whatever its interval and however
\* short the month.
THEOREM NextPeriodForward ==
  ASSUME NEW from \in Date, NEW interval \in Intervals, NEW count \in Nat \ {0}
  PROVE  /\ NextPeriod(from, interval, count) \in Date
         /\ Serial(NextPeriod(from, interval, count)) > Serial(from)
<1>0. Serial(from) \in Nat
  BY SerialType
<1>1. CASE interval = "DAILY"
  <2>1. NextPeriod(from, interval, count) = AddDays(from, count)
    BY <1>1 DEF NextPeriod
  <2>2. QED
    BY <1>0, <2>1, AddDaysFacts
<1>2. CASE interval = "WEEKLY"
  <2>1. NextPeriod(from, interval, count) = AddDays(from, 7 * count) /\ 7 * count \in Nat \ {0}
    BY <1>2 DEF NextPeriod
  <2>2. QED
    BY <1>0, <2>1, AddDaysFacts
<1>3. CASE interval = "MONTHLY"
  <2>1. NextPeriod(from, interval, count) = Spill(from.m + count, from.d)
    BY <1>3 DEF NextPeriod, AddMonths
  <2>2. QED
    BY <2>1, MonthsForward
<1>4. CASE interval = "YEARLY"
  <2>1. NextPeriod(from, interval, count) = Spill(from.m + 12 * count, from.d)
        /\ 12 * count \in Nat \ {0}
    BY <1>4 DEF NextPeriod, AddYears
  <2>2. QED
    BY <2>1, MonthsForward
<1>5. QED
  BY <1>1, <1>2, <1>3, <1>4 DEF Intervals

-----------------------------------------------------------------------------
(* The tables.                                                             *)

LEMMA NextPeriodOf ==
  ASSUME NEW terms \in Terms, NEW from \in Date
  PROVE  NextPeriod(from, terms.interval, terms.count) \in Date
BY CatalogAssumption, NextPeriodForward

LEMMA TypedInit == ASSUME CatalogInit PROVE CatalogTypeOK
<1>1. today \in Date
  BY CatalogAssumption DEF CatalogInit
<1>2. plans \in [Plans -> Plan] /\ \A p \in Plans : plans[p].state = "none"
  BY DEF CatalogInit, Plan, NoPlan, NoTerms
<1>3. rows \in [Slots -> Row] /\ \A u \in Slots : ~Exists(u)
  BY <1>1 DEF CatalogInit, Row, Exists
<1>4. requests \in [Requests -> Request] /\ \A r \in Requests : requests[r].pc = "idle"
  BY DEF CatalogInit, Request, IdleRequest
<1>5. wallets \in [Wallets -> {"none", "known", "verified"}]
  BY DEF CatalogInit
<1>6. cycles \in [Cycles -> Cycle \cup {IdleCycle}] /\ \A c \in Cycles : cycles[c].slot = None
  BY DEF CatalogInit, IdleCycle
<1>7. QED
  BY <1>1, <1>2, <1>3, <1>4, <1>5, <1>6 DEF CatalogTypeOK

\* A step that writes the plans keeps those that exist.
LEMMA TypedPlans ==
  ASSUME CatalogTypeOK, UNCHANGED <<wallets, rows, requests, cycles, today>>,
         plans' \in [Plans -> Plan],
         \A p \in Plans : /\ plans[p].state # "none" => plans'[p].state # "none"
                          /\ plans'[p].state # "none" => plans'[p].terms \in Terms
  PROVE  CatalogTypeOK'
BY DEF CatalogTypeOK, Exists

LEMMA TypedCreatePlan ==
  ASSUME CatalogTypeOK, NEW p \in Plans, NEW terms \in Terms, NEW k \in ContractIds \cup {None},
         CreatePlan(p, terms, k)
  PROVE  CatalogTypeOK'
<1>1. plans' \in [Plans -> Plan]
  BY DEF CreatePlan, CatalogTypeOK, Plan
<1>2. \A q \in Plans : /\ plans[q].state # "none" => plans'[q].state # "none"
                       /\ plans'[q].state # "none" => plans'[q].terms \in Terms
  BY DEF CreatePlan, CatalogTypeOK
<1>3. QED
  BY <1>1, <1>2, TypedPlans DEF CreatePlan

LEMMA TypedSyncContract ==
  ASSUME CatalogTypeOK, NEW p \in Plans, NEW k \in ContractIds, SyncContract(p, k)
  PROVE  CatalogTypeOK'
<1>1. plans' \in [Plans -> Plan]
  BY DEF SyncContract, CatalogTypeOK, Plan
<1>2. \A q \in Plans : plans'[q].state = plans[q].state /\ plans'[q].terms = plans[q].terms
  BY DEF SyncContract, CatalogTypeOK, Plan
<1>3. QED
  BY <1>1, <1>2, TypedPlans DEF SyncContract, CatalogTypeOK

LEMMA TypedDeactivatePlan ==
  ASSUME CatalogTypeOK, NEW p \in Plans, DeactivatePlan(p)
  PROVE  CatalogTypeOK'
<1>1. plans' \in [Plans -> Plan]
  BY DEF DeactivatePlan, CatalogTypeOK, Plan
<1>2. \A q \in Plans : /\ plans'[q].terms = plans[q].terms
                       /\ plans'[q].state # "none" <=> plans[q].state # "none"
  BY DEF DeactivatePlan, CatalogTypeOK, Plan
<1>3. QED
  BY <1>1, <1>2, TypedPlans DEF DeactivatePlan, CatalogTypeOK

\* A wallet is never deleted.
LEMMA TypedVerifyWallet ==
  ASSUME CatalogTypeOK, NEW w \in Wallets, VerifyWallet(w)
  PROVE  CatalogTypeOK'
<1>1. wallets' \in [Wallets -> {"none", "known", "verified"}]
  BY DEF VerifyWallet, CatalogTypeOK
<1>2. \A v \in Wallets : wallets[v] # "none" => wallets'[v] # "none"
  BY DEF VerifyWallet, CatalogTypeOK
<1>3. QED
  BY <1>1, <1>2 DEF VerifyWallet, CatalogTypeOK, Exists

\* A step of one request.
LEMMA TypedRequest ==
  ASSUME CatalogTypeOK, NEW r \in Requests, UNCHANGED <<plans, rows, cycles, today>>,
         wallets' \in [Wallets -> {"none", "known", "verified"}],
         \A w \in Wallets : wallets[w] # "none" => wallets'[w] # "none",
         requests' \in [Requests -> Request],
         \A q \in Requests : q # r => requests'[q] = requests[q],
         requests'[r].pc \in {"wallet", "create", "emit"} =>
           /\ requests'[r].plan \in Plans /\ plans[requests'[r].plan].state # "none"
           /\ requests'[r].wallet \in Wallets
           /\ requests'[r].pc # "wallet" => wallets'[requests'[r].wallet] # "none",
         requests'[r].pc \in {"pause", "resume"} =>
           requests'[r].slot \in Slots /\ Exists(requests'[r].slot)
  PROVE  CatalogTypeOK'
<1>0. ASSUME NEW q \in Requests, requests'[q].pc \in {"pause", "resume"}
      PROVE  requests'[q].slot \in Slots /\ Exists(requests'[q].slot)
  <2>1. CASE q = r
    BY <1>0, <2>1
  <2>2. CASE q # r
    BY <1>0, <2>2 DEF CatalogTypeOK
  <2>3. QED
    BY <2>1, <2>2
<1>1. ASSUME NEW q \in Requests, requests'[q].pc \in {"wallet", "create", "emit"}
      PROVE  /\ requests'[q].plan \in Plans /\ plans[requests'[q].plan].state # "none"
             /\ requests'[q].wallet \in Wallets
             /\ requests'[q].pc # "wallet" => wallets'[requests'[q].wallet] # "none"
  <2>1. CASE q = r
    BY <1>1, <2>1
  <2>2. CASE q # r
    BY <1>1, <2>2 DEF CatalogTypeOK
  <2>3. QED
    BY <2>1, <2>2
<1>2. QED
  BY <1>0, <1>1 DEF CatalogTypeOK, Exists

LEMMA TypedReadPlan ==
  ASSUME CatalogTypeOK, NEW r \in Requests, NEW p \in Plans, NEW w \in Wallets, ReadPlan(r, p, w)
  PROVE  CatalogTypeOK'
<1>1. plans[p] \in Plan /\ plans[p].state # "none"
  BY DEF ReadPlan, CatalogTypeOK
<1> DEFINE new == [pc |-> "wallet", plan |-> p, wallet |-> w, slot |-> None]
<1>2. new \in Request
  BY DEF Request
<1>3. requests' = [requests EXCEPT ![r] = new]
      /\ UNCHANGED <<plans, rows, cycles, today, wallets>>
  BY DEF ReadPlan
<1>4. new.pc = "wallet" /\ new.plan = p /\ new.wallet = w
  OBVIOUS
<1> HIDE DEF new
<1>5. requests' \in [Requests -> Request] /\ requests'[r] = new
      /\ \A q \in Requests : q # r => requests'[q] = requests[q]
  BY <1>2, <1>3 DEF CatalogTypeOK
<1>6. wallets' \in [Wallets -> {"none", "known", "verified"}]
  BY <1>3 DEF CatalogTypeOK
<1>7. QED
  BY <1>1, <1>3, <1>4, <1>5, <1>6, TypedRequest

LEMMA TypedUpsertWallet ==
  ASSUME CatalogTypeOK, NEW r \in Requests, UpsertWallet(r)
  PROVE  CatalogTypeOK'
<1>1. requests[r].wallet \in Wallets /\ requests[r].plan \in Plans
      /\ plans[requests[r].plan].state # "none" /\ requests[r] \in Request
  BY DEF UpsertWallet, CatalogTypeOK
<1>2. requests' \in [Requests -> Request]
      /\ \A q \in Requests : q # r => requests'[q] = requests[q]
  BY DEF UpsertWallet, CatalogTypeOK, Request
<1>3. requests'[r].plan = requests[r].plan /\ requests'[r].wallet = requests[r].wallet
      /\ requests'[r].pc = "create"
  BY DEF UpsertWallet, CatalogTypeOK, Request
<1>4. /\ wallets' \in [Wallets -> {"none", "known", "verified"}]
      /\ \A w \in Wallets : wallets[w] # "none" => wallets'[w] # "none"
      /\ wallets'[requests[r].wallet] # "none"
  BY <1>1 DEF UpsertWallet, CatalogTypeOK
<1>5. UNCHANGED <<plans, rows, cycles, today>>
  BY DEF UpsertWallet
<1>6. QED
  BY <1>1, <1>2, <1>3, <1>4, <1>5, TypedRequest

LEMMA TypedEndRequest ==
  ASSUME CatalogTypeOK, NEW r \in Requests, EndRequest(r)
  PROVE  CatalogTypeOK'
<1>1. IdleRequest \in Request /\ IdleRequest.pc = "idle"
  BY DEF IdleRequest, Request
<1>2. requests' \in [Requests -> Request] /\ requests'[r].pc = "idle"
      /\ \A q \in Requests : q # r => requests'[q] = requests[q]
  BY <1>1 DEF EndRequest, CatalogTypeOK
<1>3. UNCHANGED <<plans, rows, cycles, today, wallets>>
      /\ wallets' \in [Wallets -> {"none", "known", "verified"}]
  BY DEF EndRequest, CatalogTypeOK
<1>4. QED
  BY <1>2, <1>3, TypedRequest

\* A step that writes one row.
LEMMA TypedRow ==
  ASSUME CatalogTypeOK, NEW u \in Slots, NEW row \in Row, rows' = [rows EXCEPT ![u] = row],
         UNCHANGED <<plans, wallets, today>>,
         row.status # "none" => /\ row.plan \in Plans /\ plans[row.plan].state # "none"
                                /\ row.wallet \in Wallets /\ wallets[row.wallet] # "none"
  PROVE  /\ rows' \in [Slots -> Row]
         /\ \A v \in Slots : Exists(v)' =>
              /\ rows'[v].plan \in Plans /\ plans'[rows'[v].plan].state # "none"
              /\ rows'[v].wallet \in Wallets /\ wallets'[rows'[v].wallet] # "none"
BY DEF CatalogTypeOK, Exists

LEMMA RowOf ==
  ASSUME CatalogTypeOK, NEW u \in Slots, Exists(u)
  PROVE  /\ rows[u] \in Row /\ TermsOf(u) \in Terms /\ TermsOf(u).count \in Nat \ {0}
         /\ rows[u].plan \in Plans /\ plans[rows[u].plan].state # "none"
         /\ rows[u].wallet \in Wallets /\ wallets[rows[u].wallet] # "none"
BY CatalogAssumption DEF CatalogTypeOK, TermsOf

LEMMA CycleOf ==
  ASSUME CatalogTypeOK, NEW c \in Cycles, cycles[c].slot # None
  PROVE  cycles[c] \in Cycle /\ cycles[c].slot \in Slots
BY DEF CatalogTypeOK, Cycle, IdleCycle

LEMMA TypedCreateRow ==
  ASSUME CatalogTypeOK, NEW r \in Requests, NEW u \in Slots, CreateRow(r, u)
  PROVE  CatalogTypeOK'
<1> DEFINE q == requests[r]
           terms == plans[q.plan].terms
           start == IF terms.trial > 0 THEN AddDays(today, terms.trial) ELSE today
           row == [status |-> IF terms.trial > 0 THEN "TRIALING" ELSE "ACTIVE",
                   plan |-> q.plan, wallet |-> q.wallet,
                   start |-> start, end |-> NextPeriod(start, terms.interval, terms.count),
                   paused |-> FALSE, anchor |-> start, periods |-> 0]
<1>1. /\ q.plan \in Plans /\ plans[q.plan].state # "none" /\ terms \in Terms
      /\ q.wallet \in Wallets /\ wallets[q.wallet] # "none"
  BY DEF CreateRow, CatalogTypeOK
<1>2. start \in Date
  <2>1. today \in Date /\ terms.trial \in Nat
    BY <1>1, CatalogAssumption DEF CatalogTypeOK
  <2>2. AddDays(today, terms.trial) \in Date
    BY <2>1, AddDaysFacts
  <2>3. QED
    BY <2>1, <2>2
<1>3. NextPeriod(start, terms.interval, terms.count) \in Date
  <2> HIDE DEF start, terms
  <2> QED BY <1>1, <1>2, NextPeriodOf
<1>4. row \in Row /\ row.status # "none"
  <2> DEFINE end == NextPeriod(start, terms.interval, terms.count)
             status == IF terms.trial > 0 THEN "TRIALING" ELSE "ACTIVE"
  <2>1. end \in Date /\ status \in {"none", "TRIALING", "ACTIVE"} /\ status # "none"
    BY <1>3
  <2> HIDE DEF end, start, q, status
  <2>2. [status |-> status, plan |-> q.plan, wallet |-> q.wallet, start |-> start, end |-> end,
         paused |-> FALSE, anchor |-> start, periods |-> 0] \in Row
    BY <1>1, <1>2, <2>1 DEF Row
  <2>3. QED
    BY <2>1, <2>2 DEF end, status
<1>5. rows' = [rows EXCEPT ![u] = row] /\ UNCHANGED <<plans, wallets, cycles, today>>
  BY DEF CreateRow
<1>6. row.plan = q.plan /\ row.wallet = q.wallet
  OBVIOUS
<1> HIDE DEF row
<1>7. /\ rows' \in [Slots -> Row]
      /\ \A v \in Slots : Exists(v)' =>
           /\ rows'[v].plan \in Plans /\ plans'[rows'[v].plan].state # "none"
           /\ rows'[v].wallet \in Wallets /\ wallets'[rows'[v].wallet] # "none"
  BY <1>1, <1>4, <1>5, <1>6, TypedRow
<1>8. \A v \in Slots : rows[v].status # "none" => rows'[v].status # "none"
  BY <1>4, <1>5 DEF CatalogTypeOK
<1>9. requests \in [Requests -> Request] /\ requests' = [requests EXCEPT ![r].pc = "emit"]
      /\ requests[r].pc = "create"
  BY DEF CreateRow, CatalogTypeOK
<1>10. /\ requests' \in [Requests -> Request]
       /\ \A x \in Requests : requests'[x].pc \in {"wallet", "create", "emit"} =>
            /\ requests'[x].plan \in Plans /\ plans'[requests'[x].plan].state # "none"
            /\ requests'[x].wallet \in Wallets
            /\ requests'[x].pc # "wallet" => wallets'[requests'[x].wallet] # "none"
  BY <1>5, <1>9 DEF CatalogTypeOK, Request
<1>11. \A x \in Requests : requests'[x].pc \in {"pause", "resume"} =>
         requests'[x].slot \in Slots /\ rows'[requests'[x].slot].status # "none"
  <2>1. ASSUME NEW x \in Requests, requests'[x].pc \in {"pause", "resume"}
        PROVE  requests[x].pc \in {"pause", "resume"} /\ requests'[x] = requests[x]
    BY <1>9, <2>1 DEF Request
  <2>2. QED
    BY <1>8, <2>1 DEF CatalogTypeOK, Exists
<1>12. \A c \in Cycles : cycles'[c].slot # None => rows'[cycles'[c].slot].status # "none"
  <2>1. \A c \in Cycles : cycles[c].slot # None =>
          cycles[c].slot \in Slots /\ rows[cycles[c].slot].status # "none"
    BY CycleOf DEF CatalogTypeOK, Exists
  <2>2. QED
    BY <1>5, <1>8, <2>1
<1>13. QED
  BY <1>5, <1>7, <1>10, <1>11, <1>12 DEF CatalogTypeOK, Exists

\* A step that writes one row that exists, and neither its plan nor its wallet, and ends
\* the request or the cycle that writes it.
LEMMA TypedOldRow ==
  ASSUME CatalogTypeOK, NEW u \in Slots, Exists(u), NEW row \in Row,
         rows' = [rows EXCEPT ![u] = row], UNCHANGED <<plans, wallets, today>>,
         row.plan = rows[u].plan, row.wallet = rows[u].wallet, row.status # "none",
         requests' = requests \/ \E r \in Requests : requests' = [requests EXCEPT ![r] = IdleRequest],
         cycles' = cycles \/ \E c \in Cycles : cycles' = [cycles EXCEPT ![c] = IdleCycle]
  PROVE  CatalogTypeOK'
<1>1. /\ rows' \in [Slots -> Row]
      /\ \A v \in Slots : Exists(v)' =>
           /\ rows'[v].plan \in Plans /\ plans'[rows'[v].plan].state # "none"
           /\ rows'[v].wallet \in Wallets /\ wallets'[rows'[v].wallet] # "none"
  BY RowOf, TypedRow
<1>2. \A v \in Slots : rows[v].status # "none" => rows'[v].status # "none"
  BY DEF CatalogTypeOK
<1>3. IdleRequest \in Request /\ IdleRequest.pc = "idle" /\ IdleCycle.slot = None
  BY DEF IdleRequest, Request, IdleCycle
<1>4. requests' \in [Requests -> Request]
      /\ \A r \in Requests : requests'[r] = requests[r] \/ requests'[r].pc = "idle"
  BY <1>3 DEF CatalogTypeOK
<1>5. cycles' \in [Cycles -> Cycle \cup {IdleCycle}]
      /\ \A c \in Cycles : cycles'[c] = cycles[c] \/ cycles'[c].slot = None
  BY <1>3 DEF CatalogTypeOK
<1>6. \A r \in Requests : requests'[r].pc \in {"pause", "resume"} =>
        requests'[r].slot \in Slots /\ rows'[requests'[r].slot].status # "none"
  BY <1>2, <1>4 DEF CatalogTypeOK, Exists
<1>7. \A c \in Cycles : cycles'[c].slot # None => rows'[cycles'[c].slot].status # "none"
  <2>1. \A c \in Cycles : cycles[c].slot # None =>
          cycles[c].slot \in Slots /\ rows[cycles[c].slot].status # "none"
    BY CycleOf DEF CatalogTypeOK, Exists
  <2>2. QED
    BY <1>2, <1>5, <2>1
<1>8. \A r \in Requests : requests'[r].pc \in {"wallet", "create", "emit"} =>
        requests'[r] = requests[r]
  BY <1>4
<1>9. QED
  BY <1>1, <1>4, <1>5, <1>6, <1>7, <1>8 DEF CatalogTypeOK, Exists

\* What Advance makes of a row, and from what.
LEMMA Advanced ==
  ASSUME CatalogTypeOK, NEW c \in Cycles, Advance(c)
  PROVE  LET u == cycles[c].slot
         IN /\ u \in Slots /\ cycles[c] \in Cycle
            /\ rows[u] \in Row /\ rows'[u] \in Row /\ rows' = [rows EXCEPT ![u] = rows'[u]]
            /\ Exists(u) /\ UNCHANGED <<plans, wallets, requests, today>>
            /\ cycles' = [cycles EXCEPT ![c] = IdleCycle]
            /\ rows'[u].plan = rows[u].plan /\ rows'[u].wallet = rows[u].wallet
            /\ rows'[u].status # "none"
            /\ rows'[u].anchor = cycles[c].anchor /\ rows'[u].periods = cycles[c].periods + 1
            /\ rows'[u].end = Next(u, cycles[c].end)
<1> DEFINE u == cycles[c].slot
           row == [rows[u] EXCEPT !.status = "ACTIVE", !.start = cycles[c].end,
                                  !.end = Next(u, cycles[c].end), !.anchor = cycles[c].anchor,
                                  !.periods = cycles[c].periods + 1]
<1>1. rows' = [rows EXCEPT ![u] = row] /\ UNCHANGED <<plans, wallets, requests, today>>
      /\ cycles' = [cycles EXCEPT ![c] = IdleCycle] /\ u # None
  BY DEF Advance
<1>2. cycles[c] \in Cycle /\ u \in Slots /\ Exists(u)
  BY <1>1 DEF CatalogTypeOK, Cycle, IdleCycle
<1>3. rows[u] \in Row /\ TermsOf(u) \in Terms
  BY <1>2, RowOf
<1>4. cycles[c].end \in Date /\ cycles[c].anchor \in Date /\ cycles[c].periods + 1 \in Nat
  BY <1>2 DEF Cycle
<1>5. Next(u, cycles[c].end) \in Date
  BY <1>3, <1>4, NextPeriodOf DEF Next
<1> HIDE DEF u
<1>6. row \in Row
  BY <1>3, <1>4, <1>5, ZenonT(30) DEF Row
<1>7. /\ row.plan = rows[u].plan /\ row.wallet = rows[u].wallet /\ row.status # "none"
      /\ row.anchor = cycles[c].anchor /\ row.periods = cycles[c].periods + 1
      /\ row.end = Next(u, cycles[c].end)
  BY <1>3 DEF Row
<1> HIDE DEF row
<1>8. rows'[u] = row
  BY <1>1, <1>2 DEF CatalogTypeOK
<1>9. QED
  BY <1>1, <1>2, <1>3, <1>6, <1>7, <1>8 DEF u

LEMMA Resumed ==
  ASSUME CatalogTypeOK, NEW r \in Requests, Resume(r)
  PROVE  LET u == requests[r].slot
         IN /\ u \in Slots /\ Exists(u)
            /\ rows[u] \in Row /\ rows'[u] \in Row /\ rows' = [rows EXCEPT ![u] = rows'[u]]
            /\ UNCHANGED <<plans, wallets, cycles, today>>
            /\ requests' = [requests EXCEPT ![r] = IdleRequest]
            /\ rows'[u].plan = rows[u].plan /\ rows'[u].wallet = rows[u].wallet
            /\ rows'[u].status # "none"
            /\ rows'[u].anchor = today /\ rows'[u].periods = 0 /\ rows'[u].end = Next(u, today)
<1> DEFINE u == requests[r].slot
           row == [rows[u] EXCEPT !.paused = FALSE, !.start = today, !.end = Next(u, today),
                                  !.anchor = today, !.periods = 0]
<1>1. rows' = [rows EXCEPT ![u] = row] /\ UNCHANGED <<plans, wallets, cycles, today>>
      /\ requests' = [requests EXCEPT ![r] = IdleRequest] /\ requests[r].pc = "resume"
  BY DEF Resume
<1>2. u \in Slots /\ Exists(u)
  BY <1>1 DEF CatalogTypeOK
<1>3. rows[u] \in Row /\ TermsOf(u) \in Terms /\ today \in Date
  BY <1>2, RowOf DEF CatalogTypeOK
<1>4. Next(u, today) \in Date
  BY <1>3, NextPeriodOf DEF Next
<1> HIDE DEF u
<1>5. row \in Row
  BY <1>3, <1>4, ZenonT(30) DEF Row
<1>6. /\ row.plan = rows[u].plan /\ row.wallet = rows[u].wallet
      /\ row.status # "none" /\ row.anchor = today /\ row.periods = 0 /\ row.end = Next(u, today)
  BY <1>2, <1>3 DEF Row, Exists
<1> HIDE DEF row
<1>7. rows'[u] = row
  BY <1>1, <1>2 DEF CatalogTypeOK
<1>8. /\ rows'[u] \in Row
      /\ rows'[u].plan = rows[u].plan /\ rows'[u].wallet = rows[u].wallet
      /\ rows'[u].status # "none"
      /\ rows'[u].anchor = today /\ rows'[u].periods = 0 /\ rows'[u].end = Next(u, today)
  BY <1>5, <1>6, <1>7
<1>9. /\ u \in Slots /\ Exists(u)
      /\ rows[u] \in Row /\ rows'[u] \in Row /\ rows' = [rows EXCEPT ![u] = rows'[u]]
      /\ UNCHANGED <<plans, wallets, cycles, today>>
      /\ requests' = [requests EXCEPT ![r] = IdleRequest]
      /\ rows'[u].plan = rows[u].plan /\ rows'[u].wallet = rows[u].wallet
      /\ rows'[u].status # "none"
      /\ rows'[u].anchor = today /\ rows'[u].periods = 0 /\ rows'[u].end = Next(u, today)
  BY <1>1, <1>2, <1>3, <1>7, <1>8
<1>10. QED
  BY <1>9 DEF u

LEMMA Paused ==
  ASSUME CatalogTypeOK, NEW r \in Requests, Pause(r)
  PROVE  LET u == requests[r].slot
         IN /\ u \in Slots /\ Exists(u)
            /\ rows[u] \in Row /\ rows'[u] \in Row /\ rows' = [rows EXCEPT ![u] = rows'[u]]
            /\ UNCHANGED <<plans, wallets, cycles, today>>
            /\ requests' = [requests EXCEPT ![r] = IdleRequest]
            /\ rows'[u].plan = rows[u].plan /\ rows'[u].wallet = rows[u].wallet
            /\ rows'[u].status # "none"
            /\ rows'[u].anchor = rows[u].anchor /\ rows'[u].periods = rows[u].periods
            /\ rows'[u].end = rows[u].end
<1> DEFINE u == requests[r].slot
           row == [rows[u] EXCEPT !.paused = TRUE]
<1>1. rows' = [rows EXCEPT ![u] = row] /\ UNCHANGED <<plans, wallets, cycles, today>>
      /\ requests' = [requests EXCEPT ![r] = IdleRequest] /\ requests[r].pc = "pause"
  BY DEF Pause
<1>2. u \in Slots /\ Exists(u)
  BY <1>1 DEF CatalogTypeOK
<1>3. rows[u] \in Row
  BY <1>2, RowOf
<1> HIDE DEF u
<1>4. row \in Row
  BY <1>3, ZenonT(30) DEF Row
<1>5. /\ row.plan = rows[u].plan /\ row.wallet = rows[u].wallet /\ row.status # "none"
      /\ row.anchor = rows[u].anchor /\ row.periods = rows[u].periods /\ row.end = rows[u].end
  BY <1>2, <1>3 DEF Row, Exists
<1> HIDE DEF row
<1>6. rows'[u] = row
  BY <1>1, <1>2 DEF CatalogTypeOK
<1>7. QED
  BY <1>1, <1>2, <1>3, <1>4, <1>5, <1>6 DEF u

LEMMA TypedReadPaused ==
  ASSUME CatalogTypeOK, NEW r \in Requests, NEW u \in Slots, NEW pc \in {"pause", "resume"},
         ReadPaused(r, u, pc)
  PROVE  CatalogTypeOK'
<1> DEFINE new == [pc |-> pc, plan |-> None, wallet |-> None, slot |-> u]
<1>2. new \in Request /\ new.pc = pc /\ new.slot = u
  BY DEF Request
<1>3. requests' = [requests EXCEPT ![r] = new] /\ Exists(u)
      /\ UNCHANGED <<plans, wallets, rows, cycles, today>>
  BY DEF ReadPaused
<1> HIDE DEF new
<1>4. requests' \in [Requests -> Request] /\ requests'[r] = new
      /\ \A q \in Requests : q # r => requests'[q] = requests[q]
  BY <1>2, <1>3 DEF CatalogTypeOK
<1>5. wallets' \in [Wallets -> {"none", "known", "verified"}]
  BY <1>3 DEF CatalogTypeOK
<1>6. QED
  BY <1>2, <1>3, <1>4, <1>5, TypedRequest

LEMMA TypedReadCycle ==
  ASSUME CatalogTypeOK, NEW c \in Cycles, NEW u \in Slots, ReadCycle(c, u)
  PROVE  CatalogTypeOK'
<1> DEFINE new == [slot |-> u, end |-> rows[u].end, anchor |-> rows[u].anchor,
                   periods |-> rows[u].periods]
<1>1. cycles' = [cycles EXCEPT ![c] = new] /\ Exists(u)
      /\ UNCHANGED <<plans, wallets, rows, requests, today>>
  BY DEF ReadCycle
<1>2. new \in Cycle /\ new.slot = u
  BY DEF CatalogTypeOK, Row, Cycle
<1> HIDE DEF new
<1>3. cycles' \in [Cycles -> Cycle \cup {IdleCycle}]
      /\ \A x \in Cycles : cycles'[x] = cycles[x] \/ cycles'[x].slot = u
  BY <1>1, <1>2 DEF CatalogTypeOK
<1>4. QED
  BY <1>1, <1>3 DEF CatalogTypeOK, Exists

LEMMA TypedEndCycle ==
  ASSUME CatalogTypeOK, NEW c \in Cycles, EndCycle(c)
  PROVE  CatalogTypeOK'
<1>1. cycles' = [cycles EXCEPT ![c] = IdleCycle] /\ IdleCycle.slot = None
      /\ UNCHANGED <<plans, wallets, rows, requests, today>>
  BY DEF EndCycle, IdleCycle
<1>2. cycles' \in [Cycles -> Cycle \cup {IdleCycle}]
      /\ \A x \in Cycles : cycles'[x] = cycles[x] \/ cycles'[x].slot = None
  BY <1>1 DEF CatalogTypeOK
<1>3. QED
  BY <1>1, <1>2 DEF CatalogTypeOK, Exists

LEMMA TypedStep ==
  ASSUME CatalogTypeOK, [CatalogNext]_catalogVars
  PROVE  CatalogTypeOK'
<1>1. ASSUME NEW p \in Plans, NEW terms \in Terms, NEW k \in ContractIds \cup {None},
             CreatePlan(p, terms, k)
      PROVE  CatalogTypeOK'
  BY <1>1, TypedCreatePlan
<1>2. ASSUME NEW p \in Plans, NEW k \in ContractIds, SyncContract(p, k) PROVE CatalogTypeOK'
  BY <1>2, TypedSyncContract
<1>3. ASSUME NEW p \in Plans, DeactivatePlan(p) PROVE CatalogTypeOK'
  BY <1>3, TypedDeactivatePlan
<1>4. ASSUME NEW w \in Wallets, VerifyWallet(w) PROVE CatalogTypeOK'
  BY <1>4, TypedVerifyWallet
<1>5. ASSUME NEW r \in Requests, NEW p \in Plans, NEW w \in Wallets, ReadPlan(r, p, w)
      PROVE  CatalogTypeOK'
  BY <1>5, TypedReadPlan
<1>6. ASSUME NEW r \in Requests, UpsertWallet(r) PROVE CatalogTypeOK'
  BY <1>6, TypedUpsertWallet
<1>7. ASSUME NEW r \in Requests, NEW u \in Slots, CreateRow(r, u) PROVE CatalogTypeOK'
  BY <1>7, TypedCreateRow
<1>8. ASSUME NEW r \in Requests, EndRequest(r) PROVE CatalogTypeOK'
  BY <1>8, TypedEndRequest
<1>9. ASSUME NEW c \in Cycles, Advance(c) PROVE CatalogTypeOK'
  <2> DEFINE u == cycles[c].slot
  <2>1. /\ u \in Slots /\ rows'[u] \in Row /\ rows' = [rows EXCEPT ![u] = rows'[u]] /\ Exists(u)
        /\ UNCHANGED <<plans, wallets, requests, today>>
        /\ cycles' = [cycles EXCEPT ![c] = IdleCycle] /\ rows'[u].status # "none"
        /\ rows'[u].plan = rows[u].plan /\ rows'[u].wallet = rows[u].wallet
    BY <1>9, Advanced
  <2> HIDE DEF u
  <2>2. QED
    BY <2>1, TypedOldRow
<1>10. ASSUME NEW r \in Requests, Pause(r) \/ Resume(r) PROVE CatalogTypeOK'
  <2> DEFINE u == requests[r].slot
  <2>1. /\ u \in Slots /\ rows'[u] \in Row /\ rows' = [rows EXCEPT ![u] = rows'[u]] /\ Exists(u)
        /\ UNCHANGED <<plans, wallets, cycles, today>>
        /\ requests' = [requests EXCEPT ![r] = IdleRequest] /\ rows'[u].status # "none"
        /\ rows'[u].plan = rows[u].plan /\ rows'[u].wallet = rows[u].wallet
    BY <1>10, Paused, Resumed
  <2> HIDE DEF u
  <2>2. QED
    BY <2>1, TypedOldRow
<1>11. ASSUME NEW r \in Requests, NEW u \in Slots, NEW pc \in {"pause", "resume"},
              ReadPaused(r, u, pc)
       PROVE  CatalogTypeOK'
  BY <1>11, TypedReadPaused
<1>12. ASSUME NEW day \in Days, DayPasses(day) PROVE CatalogTypeOK'
  <2>1. today' \in Date /\ UNCHANGED <<plans, wallets, rows, requests, cycles>>
    BY <1>12, CatalogAssumption DEF DayPasses
  <2>2. QED
    BY <2>1 DEF CatalogTypeOK, Exists
<1>13. ASSUME NEW c \in Cycles, NEW u \in Slots, ReadCycle(c, u) PROVE CatalogTypeOK'
  BY <1>13, TypedReadCycle
<1>14. ASSUME NEW c \in Cycles, EndCycle(c) PROVE CatalogTypeOK'
  BY <1>14, TypedEndCycle
<1>15. CASE UNCHANGED catalogVars
  BY <1>15 DEF catalogVars, CatalogTypeOK, Exists
<1>16. QED
  BY <1>1, <1>2, <1>3, <1>4, <1>5, <1>6, <1>7, <1>8, <1>9, <1>10, <1>11, <1>12, <1>13, <1>14, <1>15
     DEF CatalogNext

\* In every reachable state the tables have their types, the dates of every subscription
\* exist in the calendar, and the plan and the wallet of every subscription and of every
\* creation in progress are rows of their tables: no upsert, no create can fail on them.
THEOREM CatalogTyped == CatalogSpec => []CatalogTypeOK
<1>1. CatalogInit => CatalogTypeOK
  BY TypedInit
<1>2. CatalogTypeOK /\ [CatalogNext]_catalogVars => CatalogTypeOK'
  BY TypedStep
<1>3. QED
  BY <1>1, <1>2, PTL DEF CatalogSpec

-----------------------------------------------------------------------------

LEMMA MonthsType ==
  ASSUME NEW terms \in Terms
  PROVE  Months(terms) \in Nat
BY CatalogAssumption DEF Months

\* What nextPeriod makes of a date, in months.
LEMMA NextMonths ==
  ASSUME NEW terms \in Terms, NEW from \in Date, Months(terms) > 0
  PROVE  NextPeriod(from, terms.interval, terms.count) = Spill(from.m + Months(terms), from.d)
<1>1. terms.interval \in Intervals /\ terms.count \in Nat \ {0}
  BY CatalogAssumption
<1>2. terms.interval \in {"MONTHLY", "YEARLY"}
  BY <1>1 DEF Months, Intervals
<1>3. QED
  BY <1>2 DEF Months, NextPeriod, AddMonths, AddYears

\* What nextPeriod makes of a date, in days.
LEMMA NextDays ==
  ASSUME NEW terms \in Terms, NEW from \in Date, Months(terms) = 0
  PROVE  /\ DaysOf(terms) \in Nat
         /\ Serial(NextPeriod(from, terms.interval, terms.count)) = Serial(from) + DaysOf(terms)
<1>1. terms.interval \in Intervals /\ terms.count \in Nat \ {0}
  BY CatalogAssumption
<1>2. terms.interval \in {"DAILY", "WEEKLY"}
  BY <1>1 DEF Months, Intervals
<1>3. CASE terms.interval = "DAILY"
  <2>1. DaysOf(terms) = terms.count /\ NextPeriod(from, terms.interval, terms.count) = AddDays(from, terms.count)
    BY <1>3 DEF DaysOf, NextPeriod
  <2>2. QED
    BY <1>1, <2>1, AddDaysFacts
<1>4. CASE terms.interval = "WEEKLY"
  <2>1. DaysOf(terms) = 7 * terms.count /\ NextPeriod(from, terms.interval, terms.count) = AddDays(from, 7 * terms.count)
    BY <1>4 DEF DaysOf, NextPeriod
  <2>2. 7 * terms.count \in Nat
    BY <1>1
  <2>3. QED
    BY <2>1, <2>2, AddDaysFacts
<1>5. QED
  BY <1>2, <1>3, <1>4

\* A first period ends one interval after its anchor.
LEMMA FirstPeriod ==
  ASSUME NEW t \in Terms, NEW row \in Row, row.periods = 0,
         row.end = NextPeriod(row.anchor, t.interval, t.count)
  PROVE  DayKept(row, t)
<1>1. row.anchor \in Date /\ row.anchor.m \in Nat /\ row.anchor.d \in 1 .. 31 /\ Months(t) \in Nat
  BY MonthsType DEF Row, Date
<1>2. CASE Months(t) = 0
  <2>1. DaysOf(t) \in Nat /\ Serial(row.end) = Serial(row.anchor) + DaysOf(t)
    BY <1>1, <1>2, NextDays
  <2>2. DaysOf(t) * (row.periods + 1) = DaysOf(t)
    BY <2>1
  <2>3. QED
    BY <1>2, <2>1, <2>2 DEF DayKept
<1>3. CASE Months(t) > 0
  <2>1. row.end = Spill(row.anchor.m + Months(t), row.anchor.d)
    BY <1>1, <1>3, NextMonths
  <2>2. Months(t) * (row.periods + 1) = Months(t)
    BY <1>1
  <2>3. row.anchor.m + Months(t) \in Nat
    BY <1>1
  <2>4. \/ row.end = [m |-> row.anchor.m + Months(t), d |-> row.anchor.d]
        \/ /\ row.end.m = row.anchor.m + Months(t) + 1
           /\ row.end.d <= 3 /\ row.anchor.d >= 29
    BY <1>1, <2>1, <2>3, SpillFacts
  <2>5. Months(t) # 0
    BY <1>1, <1>3
  <2>6. QED
    BY <2>2, <2>4, <2>5 DEF DayKept
<1>4. QED
  BY <1>1, <1>2, <1>3

\* One interval more than n of them.
LEMMA OneMore ==
  ASSUME NEW k \in Nat, NEW n \in Nat
  PROVE  k * ((n + 1) + 1) = k * (n + 1) + k /\ k * (n + 1) \in Nat
<1>1. \A a, b \in Nat : a * (b + 1) = a * b + a
  OBVIOUS
<1>2. QED
  BY <1>1

\* Days add up: a later period ends one interval after the one before it.
LEMMA LaterByDays ==
  ASSUME NEW t \in Terms, NEW old \in Cycle, NEW new \in Row, DayKept(old, t),
         Months(t) = 0, new.anchor = old.anchor, new.periods = old.periods + 1,
         new.end = NextPeriod(old.end, t.interval, t.count)
  PROVE  DayKept(new, t)
<1> DEFINE k == DaysOf(t)
<1>1. old.end \in Date /\ old.anchor \in Date /\ old.periods \in Nat
  BY DEF Cycle
<1>2. k \in Nat /\ Serial(new.end) = Serial(old.end) + k
  BY <1>1, NextDays
<1>3. Serial(old.end) = Serial(old.anchor) + k * (old.periods + 1)
  BY DEF DayKept
<1>4. Serial(old.anchor) \in Nat
  BY <1>1, SerialType
<1> HIDE DEF k
<1>5. k * (new.periods + 1) = k * (old.periods + 1) + k /\ k * (old.periods + 1) \in Nat
  BY <1>1, <1>2, OneMore
<1>6. Serial(new.end) = Serial(new.anchor) + k * (new.periods + 1)
  BY <1>2, <1>3, <1>4, <1>5
<1>7. QED
  BY <1>6 DEF DayKept, k

\* A later period ends on the day on which the one before it ended, and a day that has
\* spilled over is one of the first three, which every month has.
LEMMA LaterByMonths ==
  ASSUME NEW t \in Terms, NEW old \in Cycle, NEW new \in Row, DayKept(old, t),
         Months(t) > 0, new.anchor = old.anchor, new.periods = old.periods + 1,
         new.end = NextPeriod(old.end, t.interval, t.count)
  PROVE  DayKept(new, t)
<1> DEFINE k == Months(t)
           month == old.anchor.m + k * (old.periods + 1)
<1>2. /\ old.anchor.m \in Nat /\ old.anchor.d \in 1 .. 31
      /\ old.end \in Date /\ old.end.m \in Nat /\ old.end.d \in 1 .. 31
      /\ old.periods \in Nat /\ k \in Nat /\ k > 0
  BY MonthsType DEF Cycle, Date
<1>3. new.end = Spill(old.end.m + k, old.end.d)
  BY <1>2, NextMonths
<1>4. /\ old.anchor.m + k * (new.periods + 1) = month + k
      /\ month \in Nat
  <2> HIDE DEF k
  <2>1. k * (new.periods + 1) = k * (old.periods + 1) + k /\ k * (old.periods + 1) \in Nat
    BY <1>2, OneMore
  <2>2. QED
    BY <1>2, <2>1
<1>5. month \in Nat
  BY <1>4
<1>6. \/ old.end = [m |-> month, d |-> old.anchor.d]
      \/ old.end.m = month + 1 /\ old.end.d <= 3 /\ old.anchor.d >= 29
  BY DEF DayKept
<1> HIDE DEF k, month
<1>7. old.end.m + k \in Nat
  BY <1>2
<1>8. \/ new.end = [m |-> month + k, d |-> old.anchor.d]
      \/ new.end.m = month + k + 1 /\ new.end.d <= 3 /\ old.anchor.d >= 29
  <2>1. CASE old.end = [m |-> month, d |-> old.anchor.d]
    <3>1. old.end.m + k = month + k /\ old.end.d = old.anchor.d
      BY <2>1
    <3>2. QED
      BY <1>2, <1>3, <1>5, <1>7, <3>1, SpillFacts
  <2>2. CASE old.end.m = month + 1 /\ old.end.d <= 3 /\ old.anchor.d >= 29
    <3>1. DaysIn(old.end.m + k) \in 28 .. 31
      BY <1>7, DaysInFacts
    <3>2. new.end = [m |-> old.end.m + k, d |-> old.end.d]
      BY <1>2, <1>3, <2>2, <3>1 DEF Spill
    <3>3. QED
      BY <1>2, <1>5, <2>2, <3>2
  <2>3. QED
    BY <1>6, <2>1, <2>2
<1>9. QED
  BY <1>4, <1>8 DEF DayKept, k, month

LEMMA LaterPeriod ==
  ASSUME NEW t \in Terms, NEW old \in Cycle, NEW new \in Row, DayKept(old, t),
         new.anchor = old.anchor, new.periods = old.periods + 1,
         new.end = NextPeriod(old.end, t.interval, t.count)
  PROVE  DayKept(new, t)
<1>1. Months(t) = 0 \/ Months(t) > 0
  BY MonthsType
<1>2. QED
  BY <1>1, LaterByDays, LaterByMonths

\* The inductive invariant: what the cycles have read is on its day as well.
KeptInv ==
  /\ BillingDayKept
  /\ \A c \in Cycles : cycles[c].slot # None => DayKept(cycles[c], TermsOf(cycles[c].slot))

\* Rows and reads that keep their values, on plans that keep their terms.
LEMMA KeptSame ==
  ASSUME CatalogTypeOK, KeptInv, UNCHANGED <<rows, cycles>>,
         \A p \in Plans : plans[p].state # "none" => plans'[p].terms = plans[p].terms
  PROVE  KeptInv'
<1>1. \A u \in Slots : Exists(u) => plans'[rows[u].plan].terms = plans[rows[u].plan].terms
  BY RowOf
<1>2. ASSUME NEW u \in Slots, Exists(u) PROVE DayKept(rows[u], plans'[rows[u].plan].terms)
  BY <1>1, <1>2 DEF KeptInv, BillingDayKept, TermsOf
<1>3. BillingDayKept'
  BY <1>2 DEF BillingDayKept, Exists, TermsOf
<1>4. ASSUME NEW c \in Cycles, cycles[c].slot # None
      PROVE  DayKept(cycles[c], plans'[rows[cycles[c].slot].plan].terms)
  <2>1. cycles[c].slot \in Slots /\ Exists(cycles[c].slot)
    BY <1>4, CycleOf DEF CatalogTypeOK
  <2>2. QED
    BY <1>1, <1>4, <2>1 DEF KeptInv, TermsOf
<1>5. \A c \in Cycles : cycles'[c].slot # None =>
        DayKept(cycles'[c], plans'[rows'[cycles'[c].slot].plan].terms)
  BY <1>4
<1>6. QED
  BY <1>3, <1>5 DEF KeptInv, TermsOf

\* One row that keeps its day, on plans that do not change; cycles may end.
LEMMA KeptRow ==
  ASSUME CatalogTypeOK, KeptInv, NEW u \in Slots, UNCHANGED plans,
         rows' = [rows EXCEPT ![u] = rows'[u]], DayKept(rows'[u], plans[rows'[u].plan].terms),
         Exists(u) => rows'[u].plan = rows[u].plan,
         \A c \in Cycles : cycles'[c] = cycles[c] \/ cycles'[c].slot = None
  PROVE  KeptInv'
<1>1. ASSUME NEW v \in Slots, rows'[v].status # "none"
      PROVE  DayKept(rows'[v], plans[rows'[v].plan].terms)
  <2>1. CASE v = u
    BY <2>1
  <2>2. CASE v # u
    <3>1. rows'[v] = rows[v]
      BY <2>2 DEF CatalogTypeOK
    <3>2. QED
      BY <1>1, <3>1 DEF KeptInv, BillingDayKept, Exists, TermsOf
  <2>3. QED
    BY <2>1, <2>2
<1>2. BillingDayKept'
  BY <1>1 DEF BillingDayKept, Exists, TermsOf
<1>3. ASSUME NEW c \in Cycles, cycles'[c].slot # None
      PROVE  DayKept(cycles'[c], plans[rows'[cycles'[c].slot].plan].terms)
  <2> DEFINE v == cycles[c].slot
  <2>1. cycles'[c] = cycles[c] /\ v # None
    BY <1>3
  <2>2. v \in Slots /\ Exists(v) /\ DayKept(cycles[c], plans[rows[v].plan].terms)
    BY <2>1, CycleOf DEF CatalogTypeOK, KeptInv, TermsOf
  <2> HIDE DEF v
  <2>3. rows'[v].plan = rows[v].plan
    <3>1. CASE v = u
      BY <2>2, <3>1
    <3>2. CASE v # u
      BY <2>2, <3>2 DEF CatalogTypeOK
    <3>3. QED
      BY <3>1, <3>2
  <2>4. QED
    BY <2>1, <2>2, <2>3 DEF v
<1>4. QED
  BY <1>2, <1>3 DEF KeptInv, TermsOf

LEMMA KeptCreateRow ==
  ASSUME CatalogTypeOK, CatalogTypeOK', KeptInv,
         NEW r \in Requests, NEW u \in Slots, CreateRow(r, u)
  PROVE  KeptInv'
<1> DEFINE q == requests[r]
           t == plans[q.plan].terms
           start == IF t.trial > 0 THEN AddDays(today, t.trial) ELSE today
           row == [status |-> IF t.trial > 0 THEN "TRIALING" ELSE "ACTIVE",
                   plan |-> q.plan, wallet |-> q.wallet,
                   start |-> start, end |-> NextPeriod(start, t.interval, t.count),
                   paused |-> FALSE, anchor |-> start, periods |-> 0]
<1>1. t \in Terms
  BY DEF CreateRow, CatalogTypeOK
<1>2. rows' = [rows EXCEPT ![u] = row] /\ UNCHANGED <<plans, cycles>> /\ ~Exists(u)
  BY DEF CreateRow
<1>3. row.plan = q.plan /\ row.periods = 0 /\ row.anchor = start
      /\ row.end = NextPeriod(start, t.interval, t.count)
  OBVIOUS
<1> HIDE DEF row, start
<1>4. rows'[u] = row /\ rows'[u] \in Row
  BY <1>2 DEF CatalogTypeOK
<1>5. DayKept(row, t)
  BY <1>1, <1>3, <1>4, FirstPeriod
<1>6. QED
  BY <1>2, <1>3, <1>4, <1>5, KeptRow

LEMMA KeptReadCycle ==
  ASSUME CatalogTypeOK, KeptInv, NEW c \in Cycles, NEW u \in Slots, ReadCycle(c, u)
  PROVE  KeptInv'
<1> DEFINE new == [slot |-> u, end |-> rows[u].end, anchor |-> rows[u].anchor,
                   periods |-> rows[u].periods]
<1>1. cycles' = [cycles EXCEPT ![c] = new] /\ Exists(u) /\ UNCHANGED <<plans, rows>>
  BY DEF ReadCycle
<1>2. DayKept(rows[u], TermsOf(u))
  BY <1>1 DEF KeptInv, BillingDayKept
<1>3. DayKept(new, TermsOf(u)) /\ new.slot = u
  BY <1>2 DEF DayKept
<1> HIDE DEF new
<1>4. ASSUME NEW x \in Cycles, cycles'[x].slot # None
      PROVE  DayKept(cycles'[x], TermsOf(cycles'[x].slot))
  <2>1. CASE x = c
    BY <1>1, <1>3, <2>1 DEF CatalogTypeOK
  <2>2. CASE x # c
    BY <1>1, <1>4, <2>2 DEF CatalogTypeOK, KeptInv
  <2>3. QED
    BY <2>1, <2>2
<1>5. BillingDayKept'
  BY <1>1 DEF KeptInv, BillingDayKept, Exists, TermsOf
<1>6. QED
  BY <1>1, <1>4, <1>5 DEF KeptInv, TermsOf

LEMMA KeptStep ==
  ASSUME CatalogTypeOK, CatalogTypeOK', KeptInv, [CatalogNext]_catalogVars
  PROVE  KeptInv'
<1>1. ASSUME NEW p \in Plans, NEW terms \in Terms, NEW k \in ContractIds \cup {None},
             CreatePlan(p, terms, k)
      PROVE  KeptInv'
  <2>1. UNCHANGED <<rows, cycles>>
        /\ \A q \in Plans : plans[q].state # "none" => plans'[q].terms = plans[q].terms
    BY <1>1 DEF CreatePlan, CatalogTypeOK
  <2>2. QED
    BY <2>1, KeptSame
<1>2. ASSUME NEW p \in Plans, NEW k \in ContractIds, SyncContract(p, k)
      PROVE  KeptInv'
  <2>1. UNCHANGED <<rows, cycles>>
        /\ \A q \in Plans : plans[q].state # "none" => plans'[q].terms = plans[q].terms
    BY <1>2 DEF SyncContract, CatalogTypeOK, Plan
  <2>2. QED
    BY <2>1, KeptSame
<1>3. ASSUME NEW p \in Plans, DeactivatePlan(p)
      PROVE  KeptInv'
  <2>1. UNCHANGED <<rows, cycles>>
        /\ \A q \in Plans : plans[q].state # "none" => plans'[q].terms = plans[q].terms
    BY <1>3 DEF DeactivatePlan, CatalogTypeOK, Plan
  <2>2. QED
    BY <2>1, KeptSame
<1>4. CASE UNCHANGED <<plans, rows, cycles>>
  BY <1>4, KeptSame
<1>5. ASSUME NEW r \in Requests, NEW u \in Slots, CreateRow(r, u) PROVE KeptInv'
  BY <1>5, KeptCreateRow
<1>6. ASSUME NEW c \in Cycles, Advance(c) PROVE KeptInv'
  <2> DEFINE u == cycles[c].slot
             t == plans[rows[u].plan].terms
  <2>1. /\ u \in Slots /\ cycles[c] \in Cycle /\ rows'[u] \in Row /\ Exists(u)
        /\ rows' = [rows EXCEPT ![u] = rows'[u]] /\ UNCHANGED plans
        /\ rows'[u].plan = rows[u].plan /\ cycles' = [cycles EXCEPT ![c] = IdleCycle]
        /\ rows'[u].anchor = cycles[c].anchor /\ rows'[u].periods = cycles[c].periods + 1
        /\ rows'[u].end = NextPeriod(cycles[c].end, t.interval, t.count)
    BY <1>6, Advanced DEF Next, TermsOf
  <2>2. t \in Terms /\ u # None
    BY <2>1, CatalogAssumption, RowOf DEF TermsOf
  <2>3. DayKept(cycles[c], t)
    BY <2>2 DEF KeptInv, TermsOf
  <2>4. \A x \in Cycles : cycles'[x] = cycles[x] \/ cycles'[x].slot = None
    BY <2>1 DEF CatalogTypeOK, IdleCycle
  <2> HIDE DEF u, t
  <2>5. DayKept(rows'[u], t)
    BY <2>1, <2>2, <2>3, LaterPeriod
  <2>6. t = plans[rows'[u].plan].terms
    BY <2>1 DEF t
  <2>7. QED
    BY <2>1, <2>4, <2>5, <2>6, KeptRow
<1>7. ASSUME NEW r \in Requests, Pause(r) PROVE KeptInv'
  <2> DEFINE u == requests[r].slot
  <2>1. /\ u \in Slots /\ Exists(u) /\ rows' = [rows EXCEPT ![u] = rows'[u]]
        /\ UNCHANGED <<plans, cycles>> /\ rows'[u].plan = rows[u].plan
        /\ rows'[u].anchor = rows[u].anchor /\ rows'[u].periods = rows[u].periods
        /\ rows'[u].end = rows[u].end
    BY <1>7, Paused
  <2> HIDE DEF u
  <2>2. DayKept(rows[u], plans[rows[u].plan].terms)
    BY <2>1 DEF KeptInv, BillingDayKept, TermsOf
  <2>3. DayKept(rows'[u], plans[rows'[u].plan].terms)
    BY <2>1, <2>2 DEF DayKept
  <2>4. QED
    BY <2>1, <2>3, KeptRow
<1>8. ASSUME NEW r \in Requests, Resume(r) PROVE KeptInv'
  <2> DEFINE u == requests[r].slot
             t == plans[rows[u].plan].terms
  <2>1. /\ u \in Slots /\ Exists(u) /\ rows'[u] \in Row /\ rows' = [rows EXCEPT ![u] = rows'[u]]
        /\ UNCHANGED <<plans, cycles>> /\ rows'[u].plan = rows[u].plan
        /\ rows'[u].anchor = today /\ rows'[u].periods = 0
        /\ rows'[u].end = NextPeriod(today, t.interval, t.count)
    BY <1>8, Resumed DEF Next, TermsOf
  <2>2. t \in Terms
    BY <2>1, RowOf DEF TermsOf
  <2> HIDE DEF u, t
  <2>3. DayKept(rows'[u], t)
    BY <2>1, <2>2, FirstPeriod
  <2>4. t = plans[rows'[u].plan].terms
    BY <2>1 DEF t
  <2>5. QED
    BY <2>1, <2>3, <2>4, KeptRow
<1>9. ASSUME NEW c \in Cycles, NEW u \in Slots, ReadCycle(c, u) PROVE KeptInv'
  BY <1>9, KeptReadCycle
<1>10. ASSUME NEW c \in Cycles, EndCycle(c) PROVE KeptInv'
  <2>1. UNCHANGED <<plans, rows>>
        /\ \A x \in Cycles : cycles'[x] = cycles[x] \/ cycles'[x].slot = None
    BY <1>10 DEF EndCycle, CatalogTypeOK, IdleCycle
  <2>2. \A x \in Cycles : cycles'[x].slot # None =>
          DayKept(cycles'[x], TermsOf(cycles'[x].slot))
    BY <2>1 DEF KeptInv
  <2>3. BillingDayKept'
    BY <2>1 DEF KeptInv, BillingDayKept, Exists, TermsOf
  <2>4. QED
    BY <2>1, <2>2, <2>3 DEF KeptInv, TermsOf
<1>11. QED
  BY <1>1, <1>2, <1>3, <1>4, <1>5, <1>6, <1>7, <1>8, <1>9, <1>10
     DEF CatalogNext, catalogVars, VerifyWallet, ReadPlan, UpsertWallet, ReadPaused,
         EndRequest, DayPasses

\* However often a subscription is billed, on whatever calendar, and however cycles and
\* resumes overwrite each other, it ends whole intervals after it began: to the day, or,
\* counted in months, on its day of the month but for one overflow of at most three days.
THEOREM BillingDayIsKept == CatalogSpec => []BillingDayKept
<1>1. CatalogInit => KeptInv
  BY DEF CatalogInit, KeptInv, BillingDayKept, Exists, IdleCycle
<1>2. CatalogTypeOK /\ CatalogTypeOK' /\ KeptInv /\ [CatalogNext]_catalogVars => KeptInv'
  BY KeptStep
<1>3. KeptInv => BillingDayKept
  BY DEF KeptInv
<1>4. QED
  BY <1>1, <1>2, <1>3, CatalogTyped, PTL DEF CatalogSpec

-----------------------------------------------------------------------------

Retired(p) == plans[p].state = "inactive" /\ Reading(p) = {}

LEMMA RetiredStep ==
  ASSUME CatalogTypeOK, CatalogNext, NEW p \in Plans, Retired(p)
  PROVE  plans'[p].state = "inactive" /\ Reading(p)' = {} /\ On(p)' = On(p)
<1>0. plans[p].state = "inactive" /\ Reading(p) = {}
  BY DEF Retired
<1>1. ASSUME NEW q \in Plans, NEW terms \in Terms, NEW k \in ContractIds \cup {None},
             CreatePlan(q, terms, k)
      PROVE  plans'[p].state = "inactive" /\ Reading(p)' = {} /\ On(p)' = On(p)
  BY <1>0, <1>1 DEF CreatePlan, CatalogTypeOK, Reading, On, Exists
<1>2. ASSUME NEW q \in Plans, NEW k \in ContractIds, SyncContract(q, k)
      PROVE  plans'[p].state = "inactive" /\ Reading(p)' = {} /\ On(p)' = On(p)
  BY <1>0, <1>2 DEF SyncContract, CatalogTypeOK, Plan, Reading, On, Exists
<1>3. ASSUME NEW q \in Plans, DeactivatePlan(q)
      PROVE  plans'[p].state = "inactive" /\ Reading(p)' = {} /\ On(p)' = On(p)
  BY <1>0, <1>3 DEF DeactivatePlan, CatalogTypeOK, Plan, Reading, On, Exists
<1>4. ASSUME UNCHANGED <<plans, rows, requests>>
      PROVE  plans'[p].state = "inactive" /\ Reading(p)' = {} /\ On(p)' = On(p)
  BY <1>0, <1>4 DEF Reading, On, Exists
<1>5. ASSUME NEW r \in Requests, NEW q \in Plans, NEW w \in Wallets, ReadPlan(r, q, w)
      PROVE  plans'[p].state = "inactive" /\ Reading(p)' = {} /\ On(p)' = On(p)
  <2>1. q # p /\ requests'[r].plan = q
    BY <1>0, <1>5 DEF ReadPlan, CatalogTypeOK
  <2>2. \A x \in Requests : x # r => requests'[x] = requests[x]
    BY <1>5 DEF ReadPlan, CatalogTypeOK
  <2>3. QED
    BY <1>0, <1>5, <2>1, <2>2 DEF ReadPlan, Reading, On, Exists
<1>6. ASSUME NEW r \in Requests, UpsertWallet(r) \/ EndRequest(r)
      PROVE  plans'[p].state = "inactive" /\ Reading(p)' = {} /\ On(p)' = On(p)
  <2>1. UNCHANGED <<plans, rows>>
    BY <1>6 DEF UpsertWallet, EndRequest
  <2>2. \A x \in Requests : x # r => requests'[x] = requests[x]
    BY <1>6 DEF UpsertWallet, EndRequest, CatalogTypeOK
  <2>3. \/ requests'[r].pc = "idle"
        \/ requests[r].pc = "wallet" /\ requests'[r].plan = requests[r].plan
    <3>0. requests \in [Requests -> Request] /\ IdleRequest.pc = "idle"
      BY DEF CatalogTypeOK, IdleRequest
    <3>1. CASE UpsertWallet(r)
      <4>1. requests[r].pc = "wallet" /\ requests' = [requests EXCEPT ![r].pc = "create"]
        BY <3>1 DEF UpsertWallet
      <4>2. QED
        BY <3>0, <4>1 DEF Request
    <3>2. CASE EndRequest(r)
      BY <3>0, <3>2 DEF EndRequest
    <3>3. QED
      BY <1>6, <3>1, <3>2
  <2>4. QED
    BY <1>0, <2>1, <2>2, <2>3 DEF Reading, On, Exists
<1>7. ASSUME NEW r \in Requests, NEW u \in Slots, CreateRow(r, u)
      PROVE  plans'[p].state = "inactive" /\ Reading(p)' = {} /\ On(p)' = On(p)
  <2>1. requests[r].plan # p /\ ~Exists(u) /\ UNCHANGED plans
    BY <1>0, <1>7 DEF CreateRow, Reading
  <2>2. requests'[r].pc = "emit" /\ \A x \in Requests : x # r => requests'[x] = requests[x]
    BY <1>7 DEF CreateRow, CatalogTypeOK, Request
  <2>3. rows'[u].plan = requests[r].plan /\ \A v \in Slots : v # u => rows'[v] = rows[v]
    BY <1>7 DEF CreateRow, CatalogTypeOK
  <2>4. QED
    BY <1>0, <2>1, <2>2, <2>3 DEF Reading, On, Exists
<1>8. ASSUME NEW u \in Slots, Exists(u), rows' = [rows EXCEPT ![u] = rows'[u]],
             UNCHANGED plans, rows'[u].plan = rows[u].plan, rows'[u].status # "none",
             \A r \in Requests : requests'[r] = requests[r] \/ requests'[r].pc = "idle"
      PROVE  plans'[p].state = "inactive" /\ Reading(p)' = {} /\ On(p)' = On(p)
  <2>1. \A v \in Slots : v # u => rows'[v] = rows[v]
    BY <1>8 DEF CatalogTypeOK
  <2>2. Reading(p)' = {}
    BY <1>0, <1>8 DEF Reading
  <2>3. On(p)' = On(p)
    BY <1>8, <2>1 DEF On, Exists
  <2>4. QED
    BY <1>0, <1>8, <2>2, <2>3
<1>9. ASSUME NEW c \in Cycles, Advance(c)
      PROVE  plans'[p].state = "inactive" /\ Reading(p)' = {} /\ On(p)' = On(p)
  <2> DEFINE u == cycles[c].slot
  <2>1. /\ u \in Slots /\ rows' = [rows EXCEPT ![u] = rows'[u]] /\ Exists(u)
        /\ UNCHANGED <<plans, requests>> /\ rows'[u].plan = rows[u].plan
        /\ rows'[u].status # "none"
    BY <1>9, Advanced
  <2> HIDE DEF u
  <2>2. QED
    BY <1>8, <2>1
<1>10. ASSUME NEW r \in Requests, Pause(r) \/ Resume(r)
       PROVE  plans'[p].state = "inactive" /\ Reading(p)' = {} /\ On(p)' = On(p)
  <2> DEFINE u == requests[r].slot
  <2>1. /\ u \in Slots /\ rows' = [rows EXCEPT ![u] = rows'[u]] /\ Exists(u)
        /\ UNCHANGED plans /\ rows'[u].plan = rows[u].plan
        /\ rows'[u].status # "none" /\ requests' = [requests EXCEPT ![r] = IdleRequest]
    BY <1>10, Paused, Resumed
  <2> HIDE DEF u
  <2>2. \A x \in Requests : requests'[x] = requests[x] \/ requests'[x].pc = "idle"
    BY <2>1 DEF CatalogTypeOK, IdleRequest
  <2>3. QED
    BY <1>8, <2>1, <2>2
<1>11. ASSUME NEW r \in Requests, NEW u \in Slots, NEW pc \in {"pause", "resume"},
              ReadPaused(r, u, pc)
       PROVE  plans'[p].state = "inactive" /\ Reading(p)' = {} /\ On(p)' = On(p)
  <2>1. UNCHANGED <<plans, rows>> /\ requests'[r].pc = pc
        /\ \A x \in Requests : x # r => requests'[x] = requests[x]
    BY <1>11 DEF ReadPaused, CatalogTypeOK
  <2>2. QED
    BY <1>0, <2>1 DEF Reading, On, Exists
<1>12. QED
  BY <1>1, <1>2, <1>3, <1>4, <1>5, <1>6, <1>7, <1>9, <1>10, <1>11
     DEF CatalogNext, VerifyWallet, DayPasses, ReadCycle, EndCycle

\* A plan that is deactivated, and that no creation has read before, never has another
\* subscription, whatever is synced to it and whoever asks for it.
THEOREM RetiredPlansStayRetired == CatalogSpec => RetiredStaysRetired
<1>1. ASSUME CatalogTypeOK, [CatalogNext]_catalogVars
      PROVE  [\A p \in Plans :
                plans[p].state = "inactive" /\ Reading(p) = {}
                  => plans'[p].state = "inactive" /\ Reading(p)' = {} /\ On(p)' = On(p)]_catalogVars
  BY <1>1, RetiredStep DEF Retired
<1>2. QED
  BY <1>1, CatalogTyped, PTL DEF CatalogSpec, RetiredStaysRetired
=============================================================================
