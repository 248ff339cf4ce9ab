------------------------------- MODULE MCEdges -------------------------------
(***************************************************************************)
(* The parts around the payment calls that share no table with one         *)
(* another: the audit log, the guard as a library, the financial intents   *)
(* over the payments, the facts a settlement verdict is made of, the       *)
(* limits in front of an execution and the web application's session.      *)
(* Nothing is lost by looking at behaviours in which one of them moves.    *)
(***************************************************************************)
EXTENDS AuditChain, FinancialIntents, GuardMiddleware, SettlementFacts,
        TransferDiscovery, ExecutionLimits, AuthSession, TLC

CONSTANTS
    Parts,                    \* the parts of the system to look at
    old, new, e1, e2,         \* organizations and old audit events
    small, big, huge, bad     \* payments a wrapped callback is asked for; huge is big without its mandate

VARIABLE part    \* the one that moves

\* One organization has two events from before the head table, one has none.
MCLegacy == {[id |-> e1, org |-> old, previous |-> NoEvent, at |-> 0],
             [id |-> e2, org |-> old, previous |-> e1, at |-> 1]}

MCContext ==
    LET paid(amount, domain, mandate) == [amount |-> amount, domain |-> domain, asset |-> "USDC",
                                          network |-> "base-sepolia", key |-> "k", mandate |-> mandate]
    IN  (small :> paid(1, "api.vendor", FALSE)) @@ (big :> paid(2, "api.vendor", TRUE)) @@
        (huge :> paid(2, "api.vendor", FALSE)) @@ (bad :> paid(1, "blocked.vendor", FALSE))

\* The parts share the names of their sets, so that one small group serves all.
Symmetry == Permutations(Calls) \cup Permutations(Keys) \cup Permutations(Payments)

In(p) == part = p /\ UNCHANGED part

edgeVars == <<part, auditVars, financialVars, guardVars, factsVars, discoveryVars,
              limitVars, authVars>>

\* The parts that do not move stand in one state.
Init ==
    /\ part \in Parts
    /\ AuditInit /\ (part # "audit" => clock = MaxClock)
    /\ FinancialInit /\ (part # "financial" => guardOn)
    /\ GuardInit
    /\ FactsInit
    /\ DiscoveryInit
    /\ part # "discovery" => latest = 0 /\ usdc = {} /\ ~asked /\ lookback = Max(Lookbacks) /\ blockRange = 1
    /\ LimitsInit
    /\ part # "limits" =>
         \A p \in Processes : settings[p] = [kill |-> FALSE, allowlist |-> {}, live |-> TRUE]
    /\ AuthInit
    /\ part # "session" => defaultOrg

Next ==
    \/ In("audit") /\ AuditNext
         /\ UNCHANGED <<financialVars, guardVars, factsVars, discoveryVars, limitVars, authVars>>
    \/ In("financial") /\ FinancialNext
         /\ UNCHANGED <<auditVars, guardVars, factsVars, discoveryVars, limitVars, authVars>>
    \/ In("guard") /\ GuardNext
         /\ UNCHANGED <<auditVars, financialVars, factsVars, discoveryVars, limitVars, authVars>>
    \/ In("facts") /\ FactsNext
         /\ UNCHANGED <<auditVars, financialVars, guardVars, discoveryVars, limitVars, authVars>>
    \/ In("discovery") /\ DiscoveryNext
         /\ UNCHANGED <<auditVars, financialVars, guardVars, factsVars, limitVars, authVars>>
    \/ In("limits") /\ LimitsNext
         /\ UNCHANGED <<auditVars, financialVars, guardVars, factsVars, discoveryVars, authVars>>
    \/ In("session") /\ AuthNext
         /\ UNCHANGED <<auditVars, financialVars, guardVars, factsVars, discoveryVars, limitVars>>

Spec == Init /\ [][Next]_edgeVars

EdgesTypeOK ==
    /\ AuditTypeOK /\ FinancialTypeOK /\ GuardTypeOK
    /\ FactsTypeOK /\ DiscoveryTypeOK /\ LimitsTypeOK /\ AuthTypeOK
=============================================================================
