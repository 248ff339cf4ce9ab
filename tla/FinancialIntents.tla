-------------------------- MODULE FinancialIntents --------------------------
(***************************************************************************)
(* The v5 layer over payment intents: a financial intent is created under  *)
(* an idempotency key, authorized by the guard, linked to a payment intent *)
(* under a fresh execution id, and settled when the payment is.  Its       *)
(* evidence is a snapshot of the row.  Calls are sequences of statements   *)
(* without a transaction, and the writes do not look at the status they    *)
(* overwrite.                                                              *)
(***************************************************************************)
EXTENDS Integers, FiniteSets, SequencesExt

CONSTANTS
    Keys,            \* idempotency keys of financial intents
    Payments,        \* payment intents
    Calls,           \* API calls; each does one operation
    NoPayment

ASSUME FinancialAssumption ==
    IsFiniteSet(Keys) /\ IsFiniteSet(Calls) /\ NoPayment \notin Payments

VARIABLES
    intent,      \* financial_intents by key
    born,        \* their keys in order of created_at
    payment,     \* payment_intents: whether they are confirmed
    guardOn,     \* X402_GUARD_ENABLED, fixed for a deployment
    claimed,     \* intents with a live replay claim of the guard
    executions,  \* execution ids given out so far
    request      \* locals of the calls

financialVars == <<intent, born, payment, guardOn, claimed, executions, request>>

\* The statuses these calls write; others of V5ExecutionStatus only appear
\* where mapLegacyPaymentStatus is called with a status nobody passes to it.
\* REFUSED is DENIED or APPROVAL_REQUIRED: every reader asks for either.
IntentStatus == {"none", "CREATED", "AUTHORIZED", "REFUSED", "EXECUTING", "SETTLED"}
Execution == 0..Cardinality(Calls)
NoExecution == 0
Linked == Payments \cup {NoPayment}
Envelope == [payment: Linked, settlement: {"UNOBSERVED", "FINALIZED"}]
Operation == {"create", "authorize", "bridge", "execute", "sync", "evidence"}
Stage == {"idle", "lookup", "insert", "guard", "decide", "load", "link", "find", "settle",
          "serve", "snapshot", "store", "done"}
NoRow == [status |-> "none", payment |-> NoPayment, execution |-> NoExecution, evidence |-> {}]
CreatedRow == [NoRow EXCEPT !.status = "CREATED"]
NoRequest == [at |-> "idle", op |-> "create", key |-> {}, payment |-> NoPayment,
              decision |-> "none", execution |-> NoExecution, envelope |-> {}]

FinancialTypeOK ==
    /\ \A k \in Keys :
        /\ intent[k].status \in IntentStatus
        /\ intent[k].payment \in Linked /\ intent[k].execution \in Execution
        /\ intent[k].evidence \subseteq Envelope /\ Cardinality(intent[k].evidence) <= 1
    /\ ToSet(born) = {k \in Keys : intent[k].status # "none"} /\ IsInjective(born)
    /\ payment \in [Payments -> {"open", "confirmed"}]
    /\ guardOn \in BOOLEAN /\ claimed \subseteq Keys
    /\ executions \in Execution
    /\ \A c \in Calls :
        /\ request[c].at \in Stage /\ request[c].op \in Operation
        /\ request[c].key \subseteq Keys /\ Cardinality(request[c].key) <= 1
        /\ request[c].payment \in Linked /\ request[c].execution \in Execution
        /\ request[c].decision \in IntentStatus /\ request[c].envelope \subseteq Envelope

FinancialInit ==
    /\ intent = [k \in Keys |-> NoRow]
    /\ born = <<>>
    /\ payment = [p \in Payments |-> "open"]
    /\ guardOn \in BOOLEAN
    /\ claimed = {}
    /\ executions = 0
    /\ request = [c \in Calls |-> NoRequest]
-----------------------------------------------------------------------------
Stored(k) == intent[k].status # "none"
StoredExecutionByIntent(k) == intent[k]
Stands(c, stage) == request[c].at = stage
Turn(c, stage) == request' = [request EXCEPT ![c] =
    IF stage = "done" THEN [NoRequest EXCEPT !.at = "done"] ELSE [@ EXCEPT !.at = stage]]
RowKey(c) == CHOOSE k \in request[c].key : TRUE

Accept(c, op, stage, keys, p, e) ==
    /\ Stands(c, "idle")
    /\ request' = [request EXCEPT ![c] = [NoRequest EXCEPT
          !.at = stage, !.op = op, !.key = keys, !.payment = p, !.execution = e]]
    /\ UNCHANGED <<intent, born, payment, claimed, executions, guardOn>>

\* createV1Intent, authorizeV1Intent, executeV1Intent with or without a
\* payment of its own, the bridge at the end of createPaymentIntent, the sync
\* after the handler's confirmation, and the reads that build evidence.
CallCreate(c, k) == Accept(c, "create", "lookup", {k}, NoPayment, NoExecution)
CallAuthorize(c, k) == Stored(k) /\ Accept(c, "authorize", "guard", {k}, NoPayment, NoExecution)
CallBridge(c, k, p) == Accept(c, "bridge", "lookup", {k}, p, NoExecution)
CallExecute(c, k, p) == Stored(k) /\ Accept(c, "execute", "load", {k}, p, NoExecution)
CallSync(c, p) == payment[p] = "confirmed" /\ Accept(c, "sync", "find", {}, p, NoExecution)
CallEvidence(c, k) ==
    /\ intent[k].execution # NoExecution
    /\ Accept(c, "evidence", "serve", {}, NoPayment, intent[k].execution)

\* getV1IntentVerify reads the execution id of the intent first; without one
\* it asks for one that no row has.
CallVerify(c, k) ==
    /\ Stored(k)
    /\ IF StoredExecutionByIntent(k).execution = NoExecution
       THEN Stands(c, "idle") /\ Turn(c, "done")
            /\ UNCHANGED <<intent, born, payment, claimed, executions, guardOn>>
       ELSE Accept(c, "evidence", "serve", {}, NoPayment, StoredExecutionByIntent(k).execution)
-----------------------------------------------------------------------------
(***************************************************************************)
(* createStoredFinancialIntent: UNIQUE (organization, key) refuses the     *)
(* second INSERT, and with it the call.                                    *)
(***************************************************************************)
Lookup(c) ==
    /\ Stands(c, "lookup")
    /\ Turn(c, IF ~Stored(RowKey(c)) THEN "insert" ELSE IF request[c].op = "bridge" THEN "guard" ELSE "done")
    /\ UNCHANGED <<intent, born, payment, claimed, executions, guardOn>>

Insert(c) ==
    /\ Stands(c, "insert")
    /\ IF Stored(RowKey(c))
       THEN Turn(c, "done") /\ UNCHANGED <<intent, born>>
       ELSE /\ intent' = [intent EXCEPT ![RowKey(c)] = CreatedRow]
            /\ born' = Append(born, RowKey(c))
            /\ Turn(c, IF request[c].op = "bridge" THEN "guard" ELSE "done")
    /\ UNCHANGED <<payment, claimed, executions, guardOn>>
-----------------------------------------------------------------------------
(***************************************************************************)
(* authorizeStoredIntent.  The guard refuses by its rules before it claims *)
(* the intent's fingerprint, throws when the claim is taken, and refuses   *)
(* by its budget after it; an allowed intent holds a reservation that no   *)
(* statement commits or releases (BudgetGuard has the reservations).       *)
(***************************************************************************)
Decided(c, decision) == request' = [request EXCEPT ![c].at = "decide", ![c].decision = decision]

GuardRefuses(c) ==
    /\ Stands(c, "guard") /\ guardOn
    /\ Decided(c, "REFUSED")
    /\ UNCHANGED <<intent, born, payment, claimed, executions, guardOn>>

GuardClaims(c) ==
    /\ Stands(c, "guard") /\ guardOn
    /\ IF RowKey(c) \in claimed
       THEN Turn(c, "done") /\ UNCHANGED claimed
       ELSE /\ claimed' = claimed \cup {RowKey(c)}
            /\ \E d \in {"AUTHORIZED", "REFUSED"} : Decided(c, d)
    /\ UNCHANGED <<intent, born, payment, executions, guardOn>>

GuardAbsent(c) ==
    /\ Stands(c, "guard") /\ ~guardOn
    /\ Decided(c, "AUTHORIZED")
    /\ UNCHANGED <<intent, born, payment, claimed, executions, guardOn>>

ClaimExpires(k) ==
    /\ k \in claimed
    /\ claimed' = claimed \ {k}
    /\ UNCHANGED <<intent, born, payment, executions, request, guardOn>>

Decide(c) ==
    /\ Stands(c, "decide")
    /\ intent' = [intent EXCEPT ![RowKey(c)].status = request[c].decision]
    /\ Turn(c, IF request[c].op = "bridge" THEN "link" ELSE "done")
    /\ UNCHANGED <<born, payment, claimed, executions, guardOn>>
-----------------------------------------------------------------------------
(***************************************************************************)
(* executeV1Intent and linkPaymentIntentToFinancialIntent.                 *)
(***************************************************************************)
Load(c) ==
    LET row == StoredExecutionByIntent(RowKey(c))
        p == IF request[c].payment # NoPayment THEN request[c].payment ELSE row.payment
    IN  /\ Stands(c, "load")
        /\ IF row.status = "REFUSED" \/ p = NoPayment
           THEN Turn(c, "done")
           ELSE request' = [request EXCEPT ![c].at = "link", ![c].payment = p]
        /\ UNCHANGED <<intent, born, payment, claimed, executions, guardOn>>

MapLegacy == [prepared |-> "AUTHORIZED", executing |-> "EXECUTING", confirmed |-> "SETTLED"]

Link(c) ==
    /\ Stands(c, "link")
    /\ executions' = executions + 1
    /\ intent' = [intent EXCEPT
          ![RowKey(c)].payment = request[c].payment,
          ![RowKey(c)].execution = executions + 1,
          ![RowKey(c)].status = IF request[c].op = "bridge" THEN MapLegacy.prepared ELSE MapLegacy.executing]
    /\ Turn(c, "done")
    /\ UNCHANGED <<born, payment, claimed, guardOn>>
-----------------------------------------------------------------------------
(***************************************************************************)
(* The payment settles; the handler that saw it settle syncs its mirror.   *)
(* The reconciliation job settles payments and does not.                   *)
(***************************************************************************)
SettlePayment(p) ==
    /\ payment[p] = "open"
    /\ payment' = [payment EXCEPT ![p] = "confirmed"]
    /\ UNCHANGED <<intent, born, claimed, executions, request, guardOn>>

RowsOf(p) == {k \in Keys : intent[k].payment = p}
NewestRow(k, p) == \A m, n \in DOMAIN born : born[m] = k /\ m < n => born[n] \notin RowsOf(p)

FindMirror(c) ==
    LET p == request[c].payment
    IN  /\ Stands(c, "find")
        /\ IF RowsOf(p) = {}
           THEN Turn(c, "done")
           ELSE \E k \in RowsOf(p) :
                  /\ NewestRow(k, p)
                  /\ request' = [request EXCEPT ![c].at = "settle", ![c].key = {k},
                                                ![c].execution = intent[k].execution]
        /\ UNCHANGED <<intent, born, payment, claimed, executions, guardOn>>

\* UPDATE ... WHERE payment_intent_id = ...: the rows that are linked now.
MirrorsFound(c) == request[c].key
Mirrors(c) == RowsOf(request[c].payment)

SettleMirror(c) ==
    /\ Stands(c, "settle")
    /\ intent' = [k \in Keys |->
          IF k \in Mirrors(c) THEN [intent[k] EXCEPT !.status = MapLegacy.confirmed] ELSE intent[k]]
    /\ Turn(c, "snapshot")
    /\ UNCHANGED <<born, payment, claimed, executions, guardOn>>
-----------------------------------------------------------------------------
(***************************************************************************)
(* Evidence: what is stored is served as it is; what is not is built from  *)
(* one reading of the row and written over whatever is there by then.      *)
(***************************************************************************)
RowsAt(e) == {k \in Keys : intent[k].execution = e}

ServeEvidence(c) ==
    /\ Stands(c, "serve")
    /\ Turn(c, IF \E k \in RowsAt(request[c].execution) : intent[k].evidence = {} THEN "snapshot" ELSE "done")
    /\ UNCHANGED <<intent, born, payment, claimed, executions, guardOn>>

EnvelopeOf(row) == [payment |-> row.payment,
    settlement |-> IF row.status = "SETTLED" THEN "FINALIZED" ELSE "UNOBSERVED"]

\* An execution id that another link has replaced is not found: it throws.
Snapshot(c) ==
    /\ Stands(c, "snapshot")
    /\ LET rows == RowsAt(request[c].execution) IN
         IF rows = {}
         THEN Turn(c, "done")
         ELSE request' = [request EXCEPT ![c].at = "store", ![c].key = rows,
                            ![c].envelope = {EnvelopeOf(intent[k]) : k \in rows}]
    /\ UNCHANGED <<intent, born, payment, claimed, executions, guardOn>>

EnvelopeNow(c) == {[v EXCEPT !.payment = intent[RowKey(c)].payment] : v \in request[c].envelope}
EnvelopeBuilt(c) == request[c].envelope

StoreEvidence(c) ==
    /\ Stands(c, "store")
    /\ intent' = [intent EXCEPT ![RowKey(c)].evidence = EnvelopeBuilt(c)]
    /\ Turn(c, "done")
    /\ UNCHANGED <<born, payment, claimed, executions, guardOn>>

\* The process dies, or the database does not answer.
Abort(c) ==
    /\ ~Stands(c, "idle") /\ ~Stands(c, "done")
    /\ Turn(c, "done")
    /\ UNCHANGED <<intent, born, payment, claimed, executions, guardOn>>

FinancialNext ==
    \/ \E c \in Calls, k \in Keys : CallCreate(c, k) \/ CallAuthorize(c, k) \/ CallEvidence(c, k)
          \/ CallVerify(c, k)
    \/ \E c \in Calls, k \in Keys, p \in Payments : CallBridge(c, k, p)
    \/ \E c \in Calls, k \in Keys, p \in Linked : CallExecute(c, k, p)
    \/ \E c \in Calls, p \in Payments : CallSync(c, p)
    \/ \E c \in Calls :
        \/ Lookup(c) \/ Insert(c) \/ GuardRefuses(c) \/ GuardClaims(c) \/ GuardAbsent(c) \/ Decide(c)
        \/ Load(c) \/ Link(c) \/ FindMirror(c) \/ SettleMirror(c)
        \/ ServeEvidence(c) \/ Snapshot(c) \/ StoreEvidence(c) \/ Abort(c)
    \/ \E k \in Keys : ClaimExpires(k)
    \/ \E p \in Payments : SettlePayment(p)

FinancialSpec == FinancialInit /\ [][FinancialNext]_financialVars
-----------------------------------------------------------------------------
\* A mirror that says SETTLED is linked to a payment that is confirmed,
\* although a call may link it to another payment between the sync's reading
\* of the mirror and its UPDATE (v5Bridge.ts:83).
SettledMirrorIsTrue ==
    \A k \in Keys : intent[k].status = "SETTLED" =>
        intent[k].payment \in Payments /\ payment[intent[k].payment] = "confirmed"

\* What is explained: the stored envelope, or one that nothing was observed for.
BuildExplainCharge(row) ==
    IF row.evidence # {} THEN row.evidence ELSE {[payment |-> row.payment, settlement |-> "UNOBSERVED"]}

\* What a reader of the evidence is told.
ExplainCharge(v) ==
    IF v.settlement \in {"FINALIZED", "SAFE", "INCLUDED"} THEN "VERIFIED" ELSE v.settlement

\* Evidence that explains a charge as verified names a payment that is
\* confirmed, whatever is linked, settled or stored between the snapshot and
\* the write (v5Store.ts:212 and :232).
FinalEvidenceIsTrue ==
    \A k \in Keys : \A v \in BuildExplainCharge(intent[k]) : ExplainCharge(v) = "VERIFIED" =>
        v.payment \in Payments /\ payment[v.payment] = "confirmed"
=============================================================================
