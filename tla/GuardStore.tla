----------------------------- MODULE GuardStore -----------------------------
(***************************************************************************)
(* What the x402 guard asks of a store of its state, the interface         *)
(* GuardStateStore: a payment's fingerprint is claimed, under the claim    *)
(* budget is reserved, and the reservation is committed or released, each  *)
(* atomically.  The Postgres store (BudgetGuard), the store in memory      *)
(* (GuardMiddleware) and the payment calls and sweeps (PaymentExecution)   *)
(* all keep to it.                                                         *)
(***************************************************************************)
CONSTANTS
    Holders,     \* calls that ask for an authorization, each for one of its own
    Prints,      \* payment fingerprints
    Nobody       \* what a call without a claim has claimed

VARIABLES
    claims,      \* fingerprints whose claim is live
    stage,       \* how far the authorization of a call has come
    claimed      \* the fingerprint a call holds its authorization for

storeVars == <<claims, stage, claimed>>

Stage == {"new", "claimed", "refused", "reserved", "committed", "released"}

Init ==
    /\ claims = {}
    /\ stage = [h \in Holders |-> "new"]
    /\ claimed = [h \in Holders |-> Nobody]

Move(h, from, to) ==
    /\ stage[h] \in from
    /\ stage' = [stage EXCEPT ![h] = to]

\* claimReplay returned true.  The claim of a call that was slow may have
\* lapsed by the time it is made.
ClaimReplay(h, f) ==
    /\ f \notin claims
    /\ Move(h, {"new"}, "claimed")
    /\ claims' \in {claims, claims \cup {f}}
    /\ claimed' = [claimed EXCEPT ![h] = f]

\* It returned false, the budget has no room, or the call ends without asking.
Refuse(h) ==
    /\ Move(h, {"new", "claimed"}, "refused")
    /\ claimed' = [claimed EXCEPT ![h] = Nobody]
    /\ UNCHANGED claims

ReserveBudget(h) ==
    /\ Move(h, {"claimed"}, "reserved")
    /\ UNCHANGED <<claims, claimed>>

CommitAuthorization(h) ==
    /\ Move(h, {"reserved"}, "committed")
    /\ UNCHANGED <<claims, claimed>>

ReleaseAuthorization(h) ==
    /\ Move(h, {"reserved"}, "released")
    /\ UNCHANGED <<claims, claimed>>

\* Claims whose time is over.
Lapse ==
    /\ claims' \subseteq claims
    /\ UNCHANGED <<stage, claimed>>

Next ==
    \/ \E h \in Holders, f \in Prints : ClaimReplay(h, f)
    \/ \E h \in Holders :
        \/ Refuse(h) \/ ReserveBudget(h)
        \/ CommitAuthorization(h) \/ ReleaseAuthorization(h)
    \/ Lapse

Spec == Init /\ [][Next]_storeVars
=============================================================================
