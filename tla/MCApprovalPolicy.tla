-------------------------- MODULE MCApprovalPolicy --------------------------
(***************************************************************************)
(* ApprovalPolicy for TLC.  The workspaces make the first invoice's amount *)
(* need a review, exceed the average (the second invoice's, once that one  *)
(* is being paid) or exceed the hard cap.                                  *)
(***************************************************************************)
EXTENDS ApprovalPolicy

CONSTANTS w1, w2, u1, u2, u3

MCAmount == [i \in Invoices |-> IF i = 1 THEN 2 ELSE 1]
MCWallet == [i \in Invoices |-> w1]
MCRole == [u \in Users |-> IF u = u3 THEN "viewer" ELSE "owner"]
MCWorkspaces == {[review |-> 1, cap |-> 2, multiplier |-> 1],
                 [review |-> 2, cap |-> 1, multiplier |-> 3]}

MCDefault == [review |-> 1, cap |-> 2, multiplier |-> 1]

\* A vendor that has been onboarded: its wallets are approved.
OnboardedInit == Init /\ wallets = Wallets
OnboardedSpec == OnboardedInit /\ [][Next]_vars

Symmetry == Permutations(Users \ {u3}) \cup Permutations(Keys) \cup Permutations(Calls)
                \cup Permutations(Documents)
=============================================================================
