-------------------------- MODULE MCPaymentExecution --------------------------
(***************************************************************************)
(* PaymentExecution for TLC.  Requests, keys and sweeps are interchange-   *)
(* able: no action and no property distinguishes them.  For safety that is *)
(* TLC's symmetry; for liveness, where symmetry is not sound, the call     *)
(* that starts first and the key it uses have fixed names.                 *)
(***************************************************************************)
EXTENDS PaymentExecution, TLC

Symmetry == Permutations(Requests) \cup Permutations(Keys) \cup Permutations(Sweeps)

FirstCall == CHOOSE q \in Requests : TRUE
FirstKey == CHOOSE k \in Keys : TRUE

InOrder ==
    /\ req[FirstCall].key \in {None, FirstKey}
    /\ req[FirstCall].pc = "idle" => \A q \in Requests : req[q].pc = "idle"

OrderedNext == Next /\ InOrder'

OrderedFairSpec == Init /\ [][OrderedNext]_vars /\ Fairness
=============================================================================
