---------------------------- MODULE MCBudgetGuard ----------------------------
(***************************************************************************)
(* BudgetGuard for TLC: a short and a long window, so that either may be   *)
(* the one without room.                                                   *)
(***************************************************************************)
EXTENDS BudgetGuard, TLC

MCWindows == {[seconds |-> 1, max |-> 2], [seconds |-> 2, max |-> 3]}

\* The deployed policy has one window; here it is two ticks long.
MCDay == {[seconds |-> 2, max |-> 2]}

Symmetry == Permutations(Requests) \cup Permutations(Fingerprints)
=============================================================================
