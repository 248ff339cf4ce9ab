--------------------------- MODULE GuardMiddleware ---------------------------
(***************************************************************************)
(* The x402 guard as a library: withSpendingPolicy wraps a payment         *)
(* callback of one agent, the guard keeps its claims, reservations and     *)
(* spends in memory, and its ledger chains the receipts.  Calls interleave *)
(* at every await; what a store method does under its lock is one step.    *)
(***************************************************************************)
EXTENDS Integers, FiniteSets, SequencesExt

CONSTANTS
    Payers,          \* calls of the wrapped callback
    Prints,          \* the payments they ask for
    Context,         \* what each of them is, in units of half a dollar
    Budget,          \* maxAmountAtomic of the one window all of it happens in
    MaxSettlements   \* bound of recorded settlements

ASSUME GuardAssumption ==
    /\ IsFiniteSet(Payers) /\ IsFiniteSet(Prints)
    /\ Context \in [Prints -> [amount: Int, domain: STRING, asset: STRING, network: STRING,
                              key: STRING, mandate: BOOLEAN]]
    /\ Budget \in Nat /\ MaxSettlements \in Nat

VARIABLES
    claims,       \* fingerprints whose replay claim has not expired
    reservation,  \* the authorization a call minted: its status
    pending,      \* authorizationByReceipt: the call an allow receipt is for
    ledger,       \* receipts in the order they were recorded
    payer,        \* locals of withSpendingPolicy and evaluate
    moved         \* history: the calls whose callback moved money

guardVars == <<claims, reservation, pending, ledger, payer, moved>>

Decision == {"allow", "block", "escalate"}
Receipt == [decision: Decision, context: Prints, previous: Nat, settled: BOOLEAN]
PayerStage == {"idle", "escalated", "claim", "reserve", "record", "callback", "commit", "release", "over"}
Number == 0..Len(ledger)

\* The fingerprint leaves the mandate out.
Fingerprint(x) == [amount |-> x.amount, domain |-> x.domain, asset |-> x.asset,
                   network |-> x.network, key |-> x.key]

GuardTypeOK ==
    /\ claims \subseteq {Fingerprint(Context[f]) : f \in Prints}
    /\ reservation \in [Payers -> {"none", "reserved", "committed", "released"}]
    /\ DOMAIN pending \subseteq 1..Len(ledger) /\ \A n \in DOMAIN pending : pending[n] \in Payers
    /\ ledger \in Seq(Receipt)
    /\ \A c \in Payers :
        /\ payer[c].at \in PayerStage /\ payer[c].for \subseteq Prints
        /\ Cardinality(payer[c].for) <= 1 /\ payer[c].receipt \in Number
        /\ payer[c].threw \in BOOLEAN
    /\ moved \subseteq Payers

GuardInit ==
    /\ claims = {}
    /\ reservation = [c \in Payers |-> "none"]
    /\ pending = [n \in {} |-> {}]
    /\ ledger = <<>>
    /\ payer = [c \in Payers |-> [at |-> "idle", for |-> {}, receipt |-> 0, threw |-> FALSE]]
    /\ moved = {}
-----------------------------------------------------------------------------
(***************************************************************************)
(* The rules.  An empty set of what is allowed allows everything.          *)
(***************************************************************************)
DefaultDevPolicy == [maxPerCall |-> 2, blockedDomains |-> {"blocked.vendor"}, allowedDomains |-> {},
                     maxAmount |-> Budget, requireMandateAbove |-> 1]
Policy ==
    LET own == [allowedAssets |-> {"USDC"}, allowedNetworks |-> {"base-sepolia"}]
    IN  [r \in DOMAIN own \cup DOMAIN DefaultDevPolicy |->
            IF r \in DOMAIN own THEN own[r] ELSE DefaultDevPolicy[r]]

ValidContext(x) == x.amount > 0 /\ "" \notin {x.domain, x.asset, x.network}

Outside(v, allowed) == allowed # {} /\ v \notin allowed

Rules(x) ==
    {r \in {"per_call_cap", "blocked_domain", "unknown_domain", "asset", "network"} :
       CASE r = "per_call_cap"   -> x.amount > Policy.maxPerCall
         [] r = "blocked_domain" -> x.domain \in Policy.blockedDomains
         [] r = "unknown_domain" -> Outside(x.domain, Policy.allowedDomains)
         [] r = "asset"          -> Outside(x.asset, Policy.allowedAssets)
         [] r = "network"        -> Outside(x.network, Policy.allowedNetworks)}

Escalates(x) == x.amount > Policy.requireMandateAbove /\ ~x.mandate
-----------------------------------------------------------------------------
AskedFor(c) == CHOOSE f \in payer[c].for : TRUE
Reached(c, stage) == payer[c].at = stage
Pass(c, stage) == payer' = [payer EXCEPT ![c].at = stage]

\* ReceiptLedger: a receipt names the last one.  Its hash is its number.
LastHash == Len(ledger)
NewReceipt(decision, f) ==
    [decision |-> decision, context |-> f, previous |-> LastHash, settled |-> FALSE]
Record(decision, f) == ledger' = Append(ledger, NewReceipt(decision, f))

\* A refusal is recorded, and the wrapper throws.
Refuse(c, decision) == Record(decision, AskedFor(c)) /\ Pass(c, "over")
-----------------------------------------------------------------------------
(***************************************************************************)
(* evaluate.                                                               *)
(***************************************************************************)
Evaluate(c, f) ==
    /\ Reached(c, "idle")
    /\ ValidContext(Context[f])
    /\ LET blocked == Rules(Context[f]) # {}
           stage == IF blocked THEN "over" ELSE IF Escalates(Context[f]) THEN "escalated" ELSE "claim"
       IN  /\ payer' = [payer EXCEPT ![c].at = stage, ![c].for = {f}]
           /\ IF blocked THEN Record("block", f) ELSE UNCHANGED ledger
    /\ UNCHANGED <<claims, reservation, pending, moved>>

\* onEscalate, when there is one, may approve; the rules are asked again and
\* say what they said before, because an approval gives no mandate.
AfterEscalation(c) ==
    /\ Reached(c, "escalated")
    /\ Refuse(c, "escalate")
    /\ UNCHANGED <<claims, reservation, pending, moved>>

ClaimFingerprint(c) ==
    LET fingerprint == Fingerprint(Context[AskedFor(c)])
    IN  /\ Reached(c, "claim")
        /\ IF fingerprint \in claims
           THEN Refuse(c, "block") /\ UNCHANGED claims
           ELSE /\ claims' = claims \cup {fingerprint}
                /\ Pass(c, "reserve") /\ UNCHANGED ledger
        /\ UNCHANGED <<reservation, pending, moved>>

ExpireClaim(fingerprint) ==
    /\ claims' = claims \ {fingerprint}
    /\ UNCHANGED <<reservation, pending, ledger, payer, moved>>

AmountAsked == [c \in Payers |-> Context[AskedFor(c)].amount]
Total(S) == SumFunctionOnSet(AmountAsked, S)
Spent == {c \in Payers : reservation[c] = "committed"}
Held == {c \in Payers : reservation[c] = "reserved"}
RoomBesideSpent(amount) == Total(Spent) + amount <= Policy.maxAmount
Room(amount) == Total(Spent) + Total(Held) + amount <= Policy.maxAmount

ReserveAmount(c) ==
    /\ Reached(c, "reserve")
    /\ IF Room(Context[AskedFor(c)].amount)
       THEN /\ reservation' = [reservation EXCEPT ![c] = "reserved"]
            /\ Pass(c, "record") /\ UNCHANGED ledger
       ELSE Refuse(c, "block") /\ UNCHANGED reservation
    /\ UNCHANGED <<claims, pending, moved>>

RecordAllow(c) ==
    /\ Reached(c, "record")
    /\ Record("allow", AskedFor(c))
    /\ pending' = [n \in DOMAIN pending \cup {Len(ledger) + 1} |->
                     IF n \in DOMAIN pending THEN pending[n] ELSE c]
    /\ payer' = [payer EXCEPT ![c].at = "callback", ![c].receipt = Len(ledger) + 1]
    /\ UNCHANGED <<claims, reservation, moved>>
-----------------------------------------------------------------------------
(***************************************************************************)
(* The callback, and what its answer does to the reservation.  A callback  *)
(* that throws may have moved money; its reservation stays as it is.       *)
(***************************************************************************)
CallbackAnswers(c, ok) ==
    /\ Reached(c, "callback")
    /\ Pass(c, IF ok THEN "commit" ELSE "release")
    /\ moved' = IF ok THEN moved \cup {c} ELSE moved
    /\ UNCHANGED <<claims, reservation, pending, ledger>>

CallbackThrows(c) ==
    /\ Reached(c, "callback")
    /\ payer' = [payer EXCEPT ![c].at = "over", ![c].threw = TRUE]
    /\ \E S \in {{}, {c}} : moved' = moved \cup S
    /\ UNCHANGED <<claims, reservation, pending, ledger>>

\* commitAllowedSpend looks the authorization up by the call's own receipt.
\* Without one it falls back to recordSpend, which the store in memory does
\* not have (storage.ts:42), so that it does nothing.
LatestAllow(c) == LET allows == {n \in DOMAIN ledger : ledger[n].decision = "allow" /\ ~ledger[n].settled}
                  IN  Max(allows)
OwnReceipt(c) == payer[c].receipt

CommitAllowedSpend(c) ==
    LET n == OwnReceipt(c)
    IN  /\ Reached(c, "commit")
        /\ IF n \in DOMAIN pending
           THEN /\ reservation' = [reservation EXCEPT ![pending[n]] = "committed"]
                /\ pending' = [k \in DOMAIN pending \ {n} |-> pending[k]]
           ELSE UNCHANGED <<reservation, pending>>
        /\ Pass(c, "over")
        /\ UNCHANGED <<claims, ledger, moved>>

ReleaseReservation(c) ==
    /\ Reached(c, "release")
    /\ reservation' = [reservation EXCEPT ![c] = "released"]
    /\ Pass(c, "over")
    /\ UNCHANGED <<claims, pending, ledger, moved>>

\* recordSettlement: a new receipt that names the one it settles, which itself
\* stays without a transaction.
SettledReceipt(n) == [ledger[n] EXCEPT !.previous = n, !.settled = TRUE]

Settlement(n) ==
    /\ ledger[n].decision = "allow" /\ ~ledger[n].settled
    /\ Cardinality({k \in DOMAIN ledger : ledger[k].settled}) < MaxSettlements
    /\ ledger' = Append(ledger, SettledReceipt(n))
    /\ UNCHANGED <<claims, reservation, pending, payer, moved>>

GuardNext ==
    \/ \E c \in Payers, f \in Prints : Evaluate(c, f)
    \/ \E c \in Payers :
        \/ AfterEscalation(c) \/ ClaimFingerprint(c) \/ ReserveAmount(c) \/ RecordAllow(c)
        \/ CallbackThrows(c) \/ CommitAllowedSpend(c) \/ ReleaseReservation(c)
        \/ \E ok \in BOOLEAN : CallbackAnswers(c, ok)
    \/ \E fingerprint \in claims : ExpireClaim(fingerprint)
    \/ \E n \in DOMAIN ledger : Settlement(n)

GuardSpec == GuardInit /\ [][GuardNext]_guardVars
-----------------------------------------------------------------------------
\* Whatever moved money stays within the agent's budget, although calls
\* reserve, pay and commit in any order, pay twice for one fingerprint after
\* its claim expired, and throw after they paid (middleware index.ts:70).
PaidWithinBudget == Total(moved) <= Budget

\* When a call is over, its own reservation tells what it did: committed when
\* its callback succeeded, released when it declined, held when it threw; a
\* call never settles the reservation of another (middleware index.ts:108).
ReservationTellsPayment ==
    \A c \in Payers : Reached(c, "over") /\ reservation[c] # "none" =>
        IF payer[c].threw THEN reservation[c] = "reserved"
        ELSE reservation[c] = IF c \in moved THEN "committed" ELSE "released"

\* The middleware over the store in memory keeps to the store's interface.
StageOfPayer(c) ==
    IF reservation[c] # "none" THEN reservation[c]
    ELSE IF payer[c].at \in {"idle", "escalated", "claim"} THEN "new"
    ELSE IF payer[c].at = "reserve" THEN "claimed" ELSE "refused"

Store == INSTANCE GuardStore WITH
    Holders <- Payers,
    Prints <- {Fingerprint(Context[f]) : f \in Prints},
    Nobody <- "nobody",
    stage <- [c \in Payers |-> StageOfPayer(c)],
    claimed <- [c \in Payers |-> IF StageOfPayer(c) \in {"new", "refused"} THEN "nobody"
                                  ELSE Fingerprint(Context[AskedFor(c)])]

MiddlewareKeepsToStore == Store!Spec
=============================================================================
