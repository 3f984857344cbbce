------------------------------ MODULE MCCatalog ------------------------------
(* The ends of January of a common year and of a leap year, before a February; the trial *)
(* of the yearly plan ends on the leap day.                                              *)
EXTENDS PlanCatalog, TLC

Day(year, month, day) == [m |-> 12 * year + month - 1, d |-> day]
Of(interval, count, trial) == [interval |-> interval, count |-> count, trial |-> trial]

MCDays == {Day(2023, 1, 31), Day(2024, 1, 30)}

MCTerms == {Of("MONTHLY", 1, 0), Of("YEARLY", 1, 30), Of("WEEKLY", 2, 0), Of("DAILY", 45, 1)}

Symmetry == Permutations(Slots) \cup Permutations(Requests)
=============================================================================
