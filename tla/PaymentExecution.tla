-------------------------- MODULE PaymentExecution --------------------------
(***************************************************************************)
(* Execution of payment intents: concurrent calls of                       *)
(* POST /payment-intents/:id/execute, the reconciliation cron job, the     *)
(* guard's authorizations, the CDP provider and the chain.                 *)
(*                                                                         *)
(* Every step of a request or of a sweep is the code between two awaits    *)
(* that touch shared state; the database statements are atomic, nothing    *)
(* longer is.  An execution id, the provider idempotency key minted for it *)
(* and the transaction hash it yields are the same value here: the request *)
(* that claimed the intent.  The same holds of an authorization id: it is  *)
(* the request that reserved it.                                           *)
(***************************************************************************)
EXTENDS Naturals, FiniteSets

CONSTANTS
    Intents,        \* payment intents, numbered in order of created_at
    Keys,           \* execution idempotency keys chosen by clients
    Requests,       \* calls of the execute endpoint
    Sweeps,         \* concurrently running instances of the cron job
    None,           \* SQL null
    GuardEnabled,   \* X402_GUARD_ENABLED
    Live,           \* PAYMENT_MODE = live
    BatchSize,      \* LIMIT of the reconciler's query
    Faults,         \* the kinds of fault the environment may inject
    MaxFaults       \* how many faults one behaviour may contain

FaultKinds ==
    {"crash",             \* the process dies between two steps
     "provider_reject",   \* the provider refuses the transfer
     "lost_response",     \* it accepts, but its answer is lost
     "dropped_response",  \* the test hook's CDP_RESPONSE_DROPPED
     "store_fault",       \* a database call throws without effect
     "rpc_timeout",       \* waitForTransactionReceipt throws
     "lagging_rpc",       \* the node reports too few confirmations
     "replay_expiry"}     \* the replay TTL passes during a request

ASSUME IntentsAssumption == Intents \subseteq Nat
ASSUME NoneAssumption ==
    /\ None \notin Requests /\ None \notin Keys /\ None \notin Intents
    /\ None \notin {"reserved", "frozen", "committed", "released"}
ASSUME ModeAssumption == GuardEnabled \in BOOLEAN /\ Live \in BOOLEAN
ASSUME BatchAssumption == BatchSize \in Nat \ {0}
ASSUME FaultAssumption == Faults \subseteq FaultKinds /\ MaxFaults \in Nat

VARIABLES
    row,         \* payment_intents
    attempt,     \* execution_attempts.status, by execution id
    auth,        \* x402_guard_budget_authorizations.status
    replay,      \* x402_guard_replays, by intent and key
    chain,       \* fate of the transfer made under a provider key
    invoice,     \* invoices.status of the intent's invoice
    fulfilled,   \* intents whose fulfilment is recorded
    req,         \* locals of the execute handler
    sweep,       \* locals of the reconciler
    faultsLeft   \* faults the environment may still inject

vars == <<row, attempt, auth, replay, chain, invoice, fulfilled, req, sweep, faultsLeft>>

-----------------------------------------------------------------------------
Status == {"prepared", "executing", "submitted", "confirmed", "failed",
           "unknown", "reconciliation_required", "reverted"}
GuardStatus == {"reserved", "frozen", "committed", "released", None}
Settlement == {"none", "pending", "confirmed", "reverted", "reconciliation_required"}
Verdict == {"none", "CONFIRMED", "REVERTED", "RECONCILIATION_REQUIRED", "PENDING"}
RequestPc == {"idle", "lookup_key", "lookup_intent", "guard_claim", "guard_reserve",
              "claim", "reread", "attempt", "transfer",
              "record_submitted", "record_rejected", "record_unknown", "rescue_dropped",
              "mark_submitted", "verify", "release_reverted", "mark_unsettled",
              "commit", "mark_confirmed", "settle_invoice", "fulfil",
              "rescue", "mark_failed", "returned", "failed"}
SweepPc == {"idle", "verify", "commit", "release", "update", "fulfil"}
AttemptStatus == {"none", "SUBMITTING", "SUBMITTED", "UNKNOWN", "REJECTED_BEFORE_BROADCAST"}

\* PaymentIntentRow, the columns execution and reconciliation write.
Row == [status: Status, key: Keys \cup {None}, execId: Requests \cup {None},
        tx: Requests \cup {None}, guardAuth: Requests \cup {None},
        guardStatus: GuardStatus, settlement: Settlement]

NewRow == [status |-> "prepared", key |-> None, execId |-> None, tx |-> None,
           guardAuth |-> None, guardStatus |-> None, settlement |-> "none"]

RequestState == [pc: RequestPc, intent: Intents \cup {None}, key: Keys \cup {None},
                 exec: Requests \cup {None}, tx: Requests \cup {None}, verdict: Verdict]
SweepState == [pc: SweepPc, seen: [Intents -> Row], verdict: Verdict]

TypeOK ==
    /\ row \in [Intents -> Row]
    /\ attempt \in [Requests -> AttemptStatus]
    /\ auth \in [Requests -> {"none", "reserved", "committed", "released"}]
    /\ replay \in [Intents \X Keys -> {"free", "claimed", "expired"}]
    /\ chain \in [Requests -> {"none", "pending", "success", "mismatch", "reverted"}]
    /\ invoice \in [Intents -> {"approved", "executed"}]
    /\ fulfilled \subseteq Intents
    /\ req \in [Requests -> RequestState]
    /\ sweep \in [Sweeps -> SweepState]
    /\ faultsLeft \in 0..MaxFaults

Init ==
    /\ row = [i \in Intents |-> NewRow]
    /\ attempt = [q \in Requests |-> "none"]
    /\ auth = [q \in Requests |-> "none"]
    /\ replay = [p \in Intents \X Keys |-> "free"]
    /\ chain = [q \in Requests |-> "none"]
    /\ invoice = [i \in Intents |-> "approved"]
    /\ fulfilled = {}
    /\ req = [q \in Requests |-> [pc |-> "idle", intent |-> None, key |-> None,
                                  exec |-> None, tx |-> None, verdict |-> "none"]]
    /\ sweep = [s \in Sweeps |-> [pc |-> "idle", seen |-> [i \in Intents |-> NewRow],
                                  verdict |-> "none"]]
    /\ faultsLeft = MaxFaults
-----------------------------------------------------------------------------
\* lifecycle.ts: what a repeated call under the same key may just read back.
IdempotentReturn == {"executing", "submitted", "unknown", "confirmed",
                     "reconciliation_required"}
RetryBlocked == {"unknown", "submitted", "reconciliation_required"}

\* A sweep that forgets the ambiguous intents.
CandidatesWithoutUnknown == {"submitted", "reconciliation_required"}
ReconcileCandidates == {"submitted", "unknown", "reconciliation_required"}

\* correlation.guardAuthorizationId of a request that passed the guard.
OwnAuth(q) == IF GuardEnabled THEN q ELSE None
\* guard_status written after a broadcast: frozen, or null without a guard.
Guarded(label) == IF GuardEnabled THEN label ELSE None

Goto(q, label) == req' = [req EXCEPT ![q].pc = label]

Inject(kind) ==
    /\ kind \in Faults
    /\ faultsLeft > 0
    /\ faultsLeft' = faultsLeft - 1

(***************************************************************************)
(* Verdicts verifySettlement can return for the transfer of execution e.   *)
(* In demo mode it compares the hash with the one the seed yields.  Live,  *)
(* the expected facts include the sender, which stays the zero address     *)
(* when the guard is disabled.                                             *)
(***************************************************************************)
MatchesExpected(e) == chain[e] = "success" /\ GuardEnabled

VerdictsWithoutFacts(e, seed) ==  \* the transferred facts are not compared
    IF chain[e] = "pending" THEN {}
    ELSE IF chain[e] = "reverted" THEN {"REVERTED"} ELSE {"CONFIRMED"}

VerifyDemoSettlement(e, seed) == IF e = seed THEN "CONFIRMED" ELSE "RECONCILIATION_REQUIRED"

Verdicts(e, seed) ==
    IF ~Live THEN {VerifyDemoSettlement(e, seed)}
    ELSE CASE chain[e] = "reverted" -> {"REVERTED"}
           [] MatchesExpected(e) -> {"CONFIRMED"}
           [] chain[e] \in {"success", "mismatch"} /\ ~MatchesExpected(e) ->
                {"RECONCILIATION_REQUIRED"}
           [] OTHER -> {}

\* mapSettlementVerificationToLifecycle: the payment status of a verdict.
StatusUnmapped(v) == v  \* the verdict itself is written
StatusOf(v) == CASE v = "CONFIRMED" -> "confirmed"
                 [] v = "REVERTED" -> "reverted"
                 [] OTHER -> "reconciliation_required"
SettlementOf(v) == IF v = "PENDING" THEN "pending" ELSE StatusOf(v)
GuardLabelReturned(v) == IF v = "CONFIRMED" THEN "committed" ELSE "released"
GuardLabelOf(v) == CASE v = "CONFIRMED" -> "committed"
                     [] v = "REVERTED" -> "released"
                     [] OTHER -> "frozen"
-----------------------------------------------------------------------------
\* A client calls execute for an intent under a key.
Start(q, i, k) ==
    /\ req[q].pc = "idle"
    /\ req' = [req EXCEPT ![q].pc = "lookup_key", ![q].intent = i, ![q].key = k]
    /\ UNCHANGED <<row, attempt, auth, replay, chain, invoice, fulfilled, sweep, faultsLeft>>

\* SELECT by execution idempotency key.
LookupKey(q) ==
    LET holders == {i \in Intents : row[i].key = req[q].key}
    IN  /\ req[q].pc = "lookup_key"
        /\ \/ holders \ {req[q].intent} # {} /\ Goto(q, "failed")
           \/ /\ holders = {req[q].intent}
              /\ row[req[q].intent].status \in IdempotentReturn
              /\ Goto(q, "returned")
           \/ /\ \/ holders = {}
                 \/ holders = {req[q].intent}
                    /\ row[req[q].intent].status \notin IdempotentReturn
              /\ Goto(q, "lookup_intent")
        /\ UNCHANGED <<row, attempt, auth, replay, chain, invoice, fulfilled, sweep, faultsLeft>>

\* SELECT by id, then ensurePayable and the separation-of-duties check, which
\* may refuse whatever the intent's status.
LookupIntent(q) ==
    LET status == row[req[q].intent].status
    IN  /\ req[q].pc = "lookup_intent"
        /\ \/ status = "confirmed" /\ Goto(q, "returned")
           \/ status \in RetryBlocked \cup {"failed"} /\ Goto(q, "failed")
           \/ /\ status \in {"prepared", "executing", "reverted"}
              /\ \/ Goto(q, "failed")
                 \/ Goto(q, IF GuardEnabled THEN "guard_claim" ELSE "claim")
        /\ UNCHANGED <<row, attempt, auth, replay, chain, invoice, fulfilled, sweep, faultsLeft>>

\* claimReplay.  The statement deletes an expired claim and inserts a new one
\* without an order between the two: it takes the claim over or it violates
\* the primary key.
FreshAlways(p) == TRUE
Fresh(p) == replay[p] # "claimed"

\* What names a payment, and what tells one guard fingerprint from another.
PaymentIdentifier(q) == <<req[q].intent, req[q].key>>
GuardInput(q) == PaymentIdentifier(q)

GuardClaim(q) ==
    LET p == GuardInput(q)
    IN  /\ req[q].pc = "guard_claim"
        /\ \/ /\ Fresh(p)
              /\ replay' = [replay EXCEPT ![p] = "claimed"]
              /\ Goto(q, "guard_reserve")
           \/ /\ replay[p] # "free"
              /\ Goto(q, "failed")
              /\ UNCHANGED replay
        /\ UNCHANGED <<row, attempt, auth, chain, invoice, fulfilled, sweep, faultsLeft>>

\* reserveBudget: a reservation of its own, or the budget windows refuse.
GuardReserve(q) ==
    /\ req[q].pc = "guard_reserve"
    /\ \/ /\ auth' = [auth EXCEPT ![q] = "reserved"]
          /\ Goto(q, "claim")
       \/ /\ Goto(q, "failed")
          /\ UNCHANGED auth
    /\ UNCHANGED <<row, attempt, replay, chain, invoice, fulfilled, sweep, faultsLeft>>

\* The claim: UPDATE ... WHERE status = 'prepared'.  The unique index on the
\* key makes it throw when another intent took the key since the lookup.
ClaimableAgain(i) == row[i].status \in {"prepared", "executing"}
Claimable(i) == row[i].status = "prepared"

\* buildExecutionCorrelation, and the rest of what the claim writes.
Correlated(q) ==
    [status |-> "executing", key |-> req[q].key, execId |-> q, tx |-> row[req[q].intent].tx,
     guardAuth |-> OwnAuth(q), guardStatus |-> Guarded("reserved"), settlement |-> "pending"]

Claim(q) ==
    LET i == req[q].intent
        k == req[q].key
    IN  /\ req[q].pc = "claim"
        /\ \/ /\ Claimable(i)
              /\ \A j \in Intents \ {i} : row[j].key # k
              /\ row' = [row EXCEPT ![i] = Correlated(q)]
              /\ req' = [req EXCEPT ![q].pc = "attempt", ![q].exec = q]
           \/ /\ Claimable(i)
              /\ \E j \in Intents \ {i} : row[j].key = k
              /\ Goto(q, "failed")
              /\ UNCHANGED row
           \/ /\ ~Claimable(i)
              /\ Goto(q, "reread")
              /\ UNCHANGED row
        /\ UNCHANGED <<attempt, auth, replay, chain, invoice, fulfilled, sweep, faultsLeft>>

\* The losing call of a race joins an execution claimed under its own key: it
\* goes on with the execution id of the row, not with the one it minted.
JoinedOwn(q, i) == q
Joined(q, i) == row[i].execId

Reread(q) ==
    LET i == req[q].intent
    IN  /\ req[q].pc = "reread"
        /\ IF row[i].status = "executing" /\ row[i].key = req[q].key
             THEN req' = [req EXCEPT ![q].pc = "attempt", ![q].exec = Joined(q, i)]
             ELSE Goto(q, "failed")
        /\ UNCHANGED <<row, attempt, auth, replay, chain, invoice, fulfilled, sweep, faultsLeft>>
-----------------------------------------------------------------------------
\* prepareExecutionAttempt: the attempt of an execution, a new one if it has
\* none; its request never differs, an intent's recipient and amount being final.
PrepareExecutionAttempt(e) == IF attempt[e] = "none" THEN "SUBMITTING" ELSE attempt[e]

\* getOrCreateExecutionAttempt: INSERT ... ON CONFLICT DO NOTHING, read again.
GetOrCreate(e) == [attempt EXCEPT ![e] = PrepareExecutionAttempt(e)]

\* A submitted attempt is answered from the store.
Attempt(q) ==
    LET e == req[q].exec
    IN  /\ req[q].pc = "attempt"
        /\ attempt' = GetOrCreate(e)
        /\ req' = IF attempt[e] = "SUBMITTED"
                    THEN [req EXCEPT ![q].pc = "mark_submitted", ![q].tx = e]
                    ELSE [req EXCEPT ![q].pc = "transfer"]
        /\ UNCHANGED <<row, auth, replay, chain, invoice, fulfilled, sweep, faultsLeft>>

\* The provider executes the transfer; it repeats none it has seen the key of.
Accepted(e) == IF chain[e] # "none" THEN chain[e]
               ELSE IF Live THEN "pending" ELSE "success"

Transfer(q) ==
    LET e == req[q].exec
    IN  /\ req[q].pc = "transfer"
        /\ \/ /\ chain' = [chain EXCEPT ![e] = Accepted(e)]
              /\ Goto(q, "record_submitted")
              /\ UNCHANGED faultsLeft
           \/ /\ Live /\ Inject("provider_reject")
              /\ Goto(q, "record_rejected")
              /\ UNCHANGED chain
           \/ /\ Live /\ Inject("lost_response")
              /\ chain' = [chain EXCEPT ![e] = Accepted(e)]
              /\ Goto(q, "record_rejected")
           \/ /\ Inject("dropped_response")
              /\ chain' = [chain EXCEPT ![e] = Accepted(e)]
              /\ Goto(q, "record_unknown")
        /\ UNCHANGED <<row, attempt, auth, replay, invoice, fulfilled, sweep>>

\* classifyBroadcastResult, executionAttemptStatusAfterBroadcast: what becomes
\* of an attempt, by the statement that is about to record it.
StatusAfterBroadcast(pc) == CASE pc = "record_submitted" -> "SUBMITTED"
                              [] pc = "record_unknown" -> "UNKNOWN"
                              [] pc = "record_rejected" -> "REJECTED_BEFORE_BROADCAST"

\* updateExecutionAttemptAfterBroadcast: no condition on the status it replaces.
AfterBroadcast(q) == [attempt EXCEPT ![req[q].exec] = StatusAfterBroadcast(req[q].pc)]

\* Only after this statement does the handler know the hash.
RecordSubmitted(q) ==
    LET e == req[q].exec
    IN  /\ req[q].pc = "record_submitted"
        /\ attempt' = AfterBroadcast(q)
        /\ req' = [req EXCEPT ![q].pc = "mark_submitted", ![q].tx = e]
        /\ UNCHANGED <<row, auth, replay, chain, invoice, fulfilled, sweep, faultsLeft>>

RecordRejected(q) ==
    /\ req[q].pc = "record_rejected"
    /\ attempt' = AfterBroadcast(q)
    /\ Goto(q, "rescue")
    /\ UNCHANGED <<row, auth, replay, chain, invoice, fulfilled, sweep, faultsLeft>>

RecordUnknown(q) ==
    /\ req[q].pc = "record_unknown"
    /\ attempt' = AfterBroadcast(q)
    /\ Goto(q, "rescue_dropped")
    /\ UNCHANGED <<row, auth, replay, chain, invoice, fulfilled, sweep, faultsLeft>>

\* UPDATE ... SET status = 'submitted', whatever the status is by now.
MarkSubmitted(q) ==
    /\ req[q].pc = "mark_submitted"
    /\ row' = [row EXCEPT ![req[q].intent].status = "submitted",
                          ![req[q].intent].tx = req[q].tx,
                          ![req[q].intent].guardStatus = Guarded("frozen")]
    /\ Goto(q, "verify")
    /\ UNCHANGED <<attempt, auth, replay, chain, invoice, fulfilled, sweep, faultsLeft>>

\* Where the handler goes on from a verdict.
AfterVerdict(v) ==
    CASE v = "CONFIRMED" -> IF GuardEnabled THEN "commit" ELSE "mark_confirmed"
      [] v = "REVERTED" -> IF GuardEnabled THEN "release_reverted" ELSE "mark_unsettled"
      [] OTHER -> "mark_unsettled"

Verify(q) ==
    /\ req[q].pc = "verify"
    /\ \/ /\ \E v \in Verdicts(req[q].tx, req[q].exec) :
                req' = [req EXCEPT ![q].pc = AfterVerdict(v), ![q].verdict = v]
          /\ UNCHANGED faultsLeft
       \/ /\ Live /\ chain[req[q].tx] \in {"success", "mismatch"}
          /\ Inject("lagging_rpc")
          /\ req' = [req EXCEPT ![q].pc = AfterVerdict("PENDING"), ![q].verdict = "PENDING"]
       \/ /\ Live /\ Inject("rpc_timeout")
          /\ Goto(q, "rescue")
    /\ UNCHANGED <<row, attempt, auth, replay, chain, invoice, fulfilled, sweep>>

\* releaseAuthorization: no row, no effect, unless it is still reserved.
Released(a) == [auth EXCEPT ![a] = IF @ = "reserved" THEN "released" ELSE @]

ReleaseReverted(q) ==
    /\ req[q].pc = "release_reverted"
    /\ auth' = Released(q)
    /\ Goto(q, "mark_unsettled")
    /\ UNCHANGED <<row, attempt, replay, chain, invoice, fulfilled, sweep, faultsLeft>>

\* Unconditional UPDATE for a broadcast that is not confirmed, then a throw.
MarkUnsettled(q) ==
    /\ req[q].pc = "mark_unsettled"
    /\ row' = [row EXCEPT ![req[q].intent].status = StatusOf(req[q].verdict),
                          ![req[q].intent].settlement = SettlementOf(req[q].verdict),
                          ![req[q].intent].guardStatus = Guarded(GuardLabelOf(req[q].verdict))]
    /\ Goto(q, "rescue")
    /\ UNCHANGED <<attempt, auth, replay, chain, invoice, fulfilled, sweep, faultsLeft>>

\* commitAuthorization throws unless the authorization is still reserved.
CommittableReleased(a) == auth[a] \in {"reserved", "released"}
Committable(a) == auth[a] = "reserved"

Committed(a) == [auth EXCEPT ![a] = "committed"]

Commit(q) ==
    /\ req[q].pc = "commit"
    /\ \/ /\ Committable(q)
          /\ auth' = Committed(q)
          /\ Goto(q, "mark_confirmed")
       \/ /\ ~Committable(q)
          /\ Goto(q, "rescue")
          /\ UNCHANGED auth
    /\ UNCHANGED <<row, attempt, replay, chain, invoice, fulfilled, sweep, faultsLeft>>

MarkConfirmed(q) ==
    /\ req[q].pc = "mark_confirmed"
    /\ row' = [row EXCEPT ![req[q].intent].status = "confirmed",
                          ![req[q].intent].tx = req[q].tx,
                          ![req[q].intent].key = req[q].key,
                          ![req[q].intent].settlement = "confirmed",
                          ![req[q].intent].guardStatus = Guarded("committed")]
    /\ Goto(q, "settle_invoice")
    /\ UNCHANGED <<attempt, auth, replay, chain, invoice, fulfilled, sweep, faultsLeft>>

SettleInvoice(q) ==
    /\ req[q].pc = "settle_invoice"
    /\ invoice' = [invoice EXCEPT ![req[q].intent] = "executed"]
    /\ Goto(q, "fulfil")
    /\ UNCHANGED <<row, attempt, auth, replay, chain, fulfilled, sweep, faultsLeft>>

Fulfil(q) ==
    /\ req[q].pc = "fulfil"
    /\ fulfilled' = fulfilled \cup {req[q].intent}
    /\ Goto(q, "returned")
    /\ UNCHANGED <<row, attempt, auth, replay, chain, invoice, sweep, faultsLeft>>
-----------------------------------------------------------------------------
\* catch: the provider accepted the transfer and its response was dropped.
RescueDropped(q) ==
    /\ req[q].pc = "rescue_dropped"
    /\ row' = IF row[req[q].intent].status = "executing"
                THEN [row EXCEPT ![req[q].intent].guardStatus = Guarded("frozen"),
                                 ![req[q].intent].settlement = "pending"]
                ELSE row
    /\ Goto(q, "failed")
    /\ UNCHANGED <<attempt, auth, replay, chain, invoice, fulfilled, sweep, faultsLeft>>

\* broadcastedTxHash as the catch block sees it: it alone decides between
\* unknown and failed, and whether the guard is released.
BroadcastForgotten(q) == FALSE
Broadcast(q) == req[q].tx # None

\* catch: the hash is known, so the outcome is ambiguous and the guard frozen.
RescueBroadcast(q) ==
    /\ req[q].pc = "rescue"
    /\ Broadcast(q)
    /\ row' = IF row[req[q].intent].status \in {"executing", "submitted"}
                THEN [row EXCEPT ![req[q].intent].status = "unknown",
                                 ![req[q].intent].tx = req[q].tx,
                                 ![req[q].intent].key = req[q].key,
                                 ![req[q].intent].guardStatus = Guarded("frozen"),
                                 ![req[q].intent].settlement = "pending"]
                ELSE row
    /\ Goto(q, "failed")
    /\ UNCHANGED <<attempt, auth, replay, chain, invoice, fulfilled, sweep, faultsLeft>>

\* catch: no hash is known, so the call releases the reservation it made ...
RescueRelease(q) ==
    /\ req[q].pc = "rescue"
    /\ ~Broadcast(q)
    /\ auth' = Released(q)
    /\ Goto(q, "mark_failed")
    /\ UNCHANGED <<row, attempt, replay, chain, invoice, fulfilled, sweep, faultsLeft>>

\* ... and fails the intent, leaving guard_status as it is.
MarkFailed(q) ==
    /\ req[q].pc = "mark_failed"
    /\ row' = IF row[req[q].intent].status = "executing"
                THEN [row EXCEPT ![req[q].intent].status = "failed",
                                 ![req[q].intent].key = req[q].key]
                ELSE row
    /\ Goto(q, "failed")
    /\ UNCHANGED <<attempt, auth, replay, chain, invoice, fulfilled, sweep, faultsLeft>>

\* A database call throws: inside the try block the catch takes over, anywhere
\* else the call fails on the spot.
TryBlock == {"attempt", "record_submitted", "record_rejected", "record_unknown",
             "mark_submitted", "release_reverted", "mark_unsettled", "commit",
             "mark_confirmed", "settle_invoice", "fulfil"}
OutsideTry == {"lookup_key", "lookup_intent", "guard_claim", "guard_reserve", "claim",
               "reread", "rescue_dropped", "rescue", "mark_failed"}

StoreFault(q) ==
    /\ req[q].pc \in TryBlock \cup OutsideTry
    /\ Inject("store_fault")
    /\ Goto(q, IF req[q].pc \in TryBlock THEN "rescue" ELSE "failed")
    /\ UNCHANGED <<row, attempt, auth, replay, chain, invoice, fulfilled, sweep>>

\* The process dies; what the call had written stays, its locals are gone.
CrashRequest(q) ==
    /\ req[q].pc \notin {"idle", "returned", "failed"}
    /\ Inject("crash")
    /\ Goto(q, "failed")
    /\ UNCHANGED <<row, attempt, auth, replay, chain, invoice, fulfilled, sweep>>
-----------------------------------------------------------------------------
\* The reconciler.  A row it has not dealt with yet is kept as it was read.
Todo(s) == {i \in Intents : sweep[s].seen[i].status \in ReconcileCandidates}
Current(s) == CHOOSE i \in Todo(s) : \A j \in Todo(s) : i <= j
SeenRow(s) == sweep[s].seen[Current(s)]

Forget(s) == [sweep[s] EXCEPT !.seen[Current(s)] = NewRow, !.verdict = "none",
                              !.pc = IF Todo(s) = {Current(s)} THEN "idle" ELSE "verify"]
Abort == [pc |-> "idle", seen |-> [i \in Intents |-> NewRow], verdict |-> "none"]

IsReconcileCandidate(i) == row[i].status \in ReconcileCandidates /\ row[i].tx # None

\* SELECT the oldest BatchSize candidates.
SweepStart(s) ==
    LET candidates == {i \in Intents : IsReconcileCandidate(i)}
        batch == {i \in candidates : Cardinality({j \in candidates : j < i}) < BatchSize}
    IN  /\ sweep[s].pc = "idle"
        /\ sweep' = [sweep EXCEPT ![s] =
                [pc |-> IF batch = {} THEN "idle" ELSE "verify", verdict |-> "none",
                 seen |-> [i \in Intents |-> IF i \in batch THEN row[i] ELSE NewRow]]]
        /\ UNCHANGED <<row, attempt, auth, replay, chain, invoice, fulfilled, req, faultsLeft>>

\* alreadyCommitted is judged by the label read at the start of the sweep.
AfterSweepVerdict(s, v) ==
    LET r == SeenRow(s)
    IN  CASE v = "CONFIRMED" /\ r.guardAuth # None /\ r.guardStatus # "committed"
                 /\ GuardEnabled -> "commit"
          [] v = "REVERTED" /\ r.guardAuth # None -> "release"
          [] OTHER -> "update"

\* buildDemoSeed: the provider key of the intent's newest attempt (it has one
\* at most), else the execution key, which no hash was made from.
DemoSeed(i) == IF \E e \in Requests : row[i].execId = e /\ attempt[e] # "none"
                 THEN row[i].execId ELSE None

SweepVerify(s) ==
    /\ sweep[s].pc = "verify"
    /\ \/ /\ \E v \in Verdicts(SeenRow(s).tx, DemoSeed(Current(s))) :
                sweep' = [sweep EXCEPT ![s].pc = AfterSweepVerdict(s, v), ![s].verdict = v]
          /\ UNCHANGED faultsLeft
       \/ /\ Live /\ chain[SeenRow(s).tx] \in {"success", "mismatch"}
          /\ Inject("lagging_rpc")
          /\ sweep' = [sweep EXCEPT ![s] = Forget(s)]
       \/ /\ Live /\ Inject("rpc_timeout")
          /\ sweep' = [sweep EXCEPT ![s] = Abort]
    /\ UNCHANGED <<row, attempt, auth, replay, chain, invoice, fulfilled, req>>

\* A commit that throws ends the whole sweep: the loop has no catch.
SweepCommit(s) ==
    LET a == SeenRow(s).guardAuth
    IN  /\ sweep[s].pc = "commit"
        /\ \/ /\ Committable(a)
              /\ auth' = Committed(a)
              /\ sweep' = [sweep EXCEPT ![s].pc = "update"]
           \/ /\ ~Committable(a)
              /\ sweep' = [sweep EXCEPT ![s] = Abort]
              /\ UNCHANGED auth
        /\ UNCHANGED <<row, attempt, replay, chain, invoice, fulfilled, req, faultsLeft>>

SweepRelease(s) ==
    /\ sweep[s].pc = "release"
    /\ auth' = Released(SeenRow(s).guardAuth)
    /\ sweep' = [sweep EXCEPT ![s].pc = "update"]
    /\ UNCHANGED <<row, attempt, replay, chain, invoice, fulfilled, req, faultsLeft>>

\* COALESCE(transition.guardStatus, guard_status): a new label only for a row
\* that has an authorization and was not already committed when it was read.
SweepLabel(s) ==
    LET r == SeenRow(s)
    IN  IF r.guardAuth = None
           \/ (sweep[s].verdict = "CONFIRMED" /\ r.guardStatus = "committed")
          THEN row[Current(s)].guardStatus
          ELSE GuardLabelOf(sweep[s].verdict)

SweepUpdate(s) ==
    /\ sweep[s].pc = "update"
    /\ row' = [row EXCEPT ![Current(s)].status = StatusOf(sweep[s].verdict),
                          ![Current(s)].settlement = SettlementOf(sweep[s].verdict),
                          ![Current(s)].guardStatus = SweepLabel(s)]
    /\ sweep' = IF sweep[s].verdict = "CONFIRMED"
                  THEN [sweep EXCEPT ![s].pc = "fulfil"]
                  ELSE [sweep EXCEPT ![s] = Forget(s)]
    /\ UNCHANGED <<attempt, auth, replay, chain, invoice, fulfilled, req, faultsLeft>>

SweepFulfil(s) ==
    /\ sweep[s].pc = "fulfil"
    /\ fulfilled' = fulfilled \cup {Current(s)}
    /\ sweep' = [sweep EXCEPT ![s] = Forget(s)]
    /\ UNCHANGED <<row, attempt, auth, replay, chain, invoice, req, faultsLeft>>

\* A crash, or a database call that throws: the rest of the batch is dropped.
CrashSweep(s) ==
    /\ sweep[s].pc # "idle"
    /\ Inject("crash") \/ Inject("store_fault")
    /\ sweep' = [sweep EXCEPT ![s] = Abort]
    /\ UNCHANGED <<row, attempt, auth, replay, chain, invoice, fulfilled, req>>
-----------------------------------------------------------------------------
\* The chain decides a pending transfer, for good.
Mine(e) ==
    /\ chain[e] = "pending"
    /\ \E o \in {"success", "mismatch", "reverted"} : chain' = [chain EXCEPT ![e] = o]
    /\ UNCHANGED <<row, attempt, auth, replay, invoice, fulfilled, req, sweep, faultsLeft>>

\* expires_at of a replay claim passes.
ReplayExpires(p) ==
    /\ replay[p] = "claimed"
    /\ Inject("replay_expiry")
    /\ replay' = [replay EXCEPT ![p] = "expired"]
    /\ UNCHANGED <<row, attempt, auth, chain, invoice, fulfilled, req, sweep>>

RequestStep(q) ==
    \/ LookupKey(q) \/ LookupIntent(q) \/ GuardClaim(q) \/ GuardReserve(q)
    \/ Claim(q) \/ Reread(q) \/ Attempt(q) \/ Transfer(q)
    \/ RecordSubmitted(q) \/ RecordRejected(q) \/ RecordUnknown(q)
    \/ MarkSubmitted(q) \/ Verify(q) \/ ReleaseReverted(q) \/ MarkUnsettled(q)
    \/ Commit(q) \/ MarkConfirmed(q) \/ SettleInvoice(q) \/ Fulfil(q)
    \/ RescueDropped(q) \/ RescueBroadcast(q) \/ RescueRelease(q) \/ MarkFailed(q)

SweepStep(s) ==
    \/ SweepStart(s) \/ SweepVerify(s) \/ SweepCommit(s) \/ SweepRelease(s)
    \/ SweepUpdate(s) \/ SweepFulfil(s)

Next ==
    \/ \E q \in Requests, i \in Intents, k \in Keys : Start(q, i, k)
    \/ \E q \in Requests : RequestStep(q) \/ StoreFault(q) \/ CrashRequest(q)
    \/ \E s \in Sweeps : SweepStep(s) \/ CrashSweep(s)
    \/ \E e \in Requests : Mine(e)
    \/ \E p \in Intents \X Keys : ReplayExpires(p)

Spec == Init /\ [][Next]_vars

(***************************************************************************)
(* Fairness: a running handler goes on (Node's event loop), the cron job   *)
(* fires every five minutes and finishes, a broadcast transaction is mined.*)
(* Nothing is assumed of clients, and faults stop at MaxFaults.            *)
(***************************************************************************)
Fairness ==
    /\ \A q \in Requests : WF_vars(RequestStep(q))
    /\ \A s \in Sweeps : WF_vars(SweepStep(s))
    /\ \A e \in Requests : WF_vars(Mine(e))

FairSpec == Spec /\ Fairness
-----------------------------------------------------------------------------
\* Requests at and beyond the try block run under a claimed execution id.
Bound == {"attempt", "transfer", "record_submitted", "record_rejected", "record_unknown",
          "rescue_dropped", "mark_submitted", "verify", "release_reverted",
          "mark_unsettled", "commit", "mark_confirmed", "settle_invoice", "fulfil",
          "rescue", "mark_failed"}

\* Every execution belongs to one intent, and the row, the running calls and
\* the chain agree on it: a row is claimed exactly when it left 'prepared', by
\* a call for that very intent; a running call works for the execution its
\* intent is claimed for, under the key recorded there; and what is on the
\* chain was sent for an intent's execution.  (The key to AtMostOneTransfer.)
ExecutionOwned ==
    /\ \A i \in Intents :
        /\ row[i].status = "prepared" => row[i].execId = None
        /\ row[i].status = "executing" => row[i].execId # None
        /\ row[i].execId # None =>
                req[row[i].execId].pc # "idle" /\ req[row[i].execId].intent = i
    /\ \A q \in Requests :
        /\ req[q].pc \in Bound => req[q].exec # None
        /\ req[q].exec # None => /\ row[req[q].intent].execId = req[q].exec
                                /\ row[req[q].intent].key = req[q].key
        /\ chain[q] # "none" => \E i \in Intents : row[i].execId = q

\* INV-003: at most one transfer is ever made for a payment intent, however
\* many calls race, join, retry or crash.
AtMostOneTransfer ==
    \A d, e \in Requests :
        chain[d] # "none" /\ chain[e] # "none" /\ req[d].intent = req[e].intent => d = e

\* INV-002: an intent is confirmed, its invoice executed and its purchase
\* fulfilled only over a transfer of its own that the chain executed as
\* expected, whoever wrote it, from whatever snapshot.
ConfirmedIsSettled ==
    \A i \in Intents :
        row[i].status = "confirmed" \/ invoice[i] = "executed" \/ i \in fulfilled =>
        /\ row[i].tx # None
        /\ chain[row[i].tx] = "success"
        /\ req[row[i].tx].intent = i

\* The guard's budget is consumed only by a settled transfer, and an intent
\* consumes it once (INV-005, no double commit).
SpendIsSettledOnce ==
    \A p \in Requests : auth[p] = "committed" =>
        /\ req[p].exec # None
        /\ chain[req[p].exec] = "success"
        /\ \A q \in Requests :
                auth[q] = "committed" /\ req[q].intent = req[p].intent => p = q

\* INV-001: the reservation an intent holds is not released while its
\* transfer is on the chain and not reverted.
NoReleaseWhileOnChain ==
    \A i \in Intents :
        row[i].guardAuth # None /\ auth[row[i].guardAuth] = "released" =>
            chain[row[i].execId] \in {"none", "reverted"}

\* guard_status says 'committed' or 'released' only of an authorization that is.
GuardLabelTrue ==
    \A i \in Intents : row[i].guardStatus \in {"committed", "released"} =>
        /\ row[i].guardAuth # None
        /\ auth[row[i].guardAuth] = row[i].guardStatus

\* What an intent's execution, record and authorization say of the payment.
TransferOf(i) == IF row[i].execId = None THEN "none" ELSE chain[row[i].execId]
BooksOf(i) ==
    IF row[i].status \in {"confirmed", "reverted", "failed"} THEN row[i].status ELSE "open"
HoldOf(i) ==
    IF row[i].guardAuth = None THEN "free"
    ELSE IF auth[row[i].guardAuth] = "reserved" THEN "held"
    ELSE IF auth[row[i].guardAuth] = "committed" THEN "spent" ELSE "returned"

\* The whole system keeps the contract of PaymentContract: the record, the
\* chain and the budget of an intent agree at every step, in the right order.
Contract == INSTANCE PaymentContract WITH
    Payments <- Intents,
    Budgeted <- GuardEnabled,
    transfer <- [i \in Intents |-> TransferOf(i)],
    books <- [i \in Intents |-> BooksOf(i)],
    hold <- [i \in Intents |-> HoldOf(i)]

ImplementsContract == Contract!Spec

\* How far the authorization of a call has come, and for which payment.
StageOf(q) ==
    IF auth[q] # "none" THEN auth[q]
    ELSE IF req[q].pc \in {"idle", "lookup_key", "lookup_intent", "guard_claim"} THEN "new"
    ELSE IF req[q].pc = "guard_reserve" THEN "claimed" ELSE "refused"

Store == INSTANCE GuardStore WITH
    Holders <- Requests,
    Prints <- Intents \X Keys,
    Nobody <- None,
    claims <- {p \in Intents \X Keys : replay[p] = "claimed"},
    stage <- [q \in Requests |-> StageOf(q)],
    claimed <- [q \in Requests |->
                  IF StageOf(q) \in {"new", "refused"} THEN None ELSE GuardInput(q)]

\* Calls, sweeps and faults, in whatever order, drive the guard's store as its
\* interface has it: a reservation is made under a claim of the call's own,
\* two calls hold one payment's only across a lapsed claim, and what is
\* committed or released stays so (INV-005).
KeepsToStore == Store!Spec

\* A committed or released authorization never changes again (INV-005).
AuthorizationFinal ==
    [][\A q \in Requests : auth[q] \in {"committed", "released"} => auth'[q] = auth[q]]_vars

\* The execution an intent is claimed for, with the key and the authorization
\* recorded for it, is what every later writer finds (migration 008).
CorrelationDurable ==
    [][\A i \in Intents : row[i].execId # None =>
        /\ row'[i].execId = row[i].execId
        /\ row'[i].key = row[i].key
        /\ row'[i].guardAuth = row[i].guardAuth]_vars

\* INV-004: a broadcast transfer's intent ends up in the status the chain
\* decided, whatever crashed on the way.
Settled(i, e) ==
    /\ row[i].execId = e
    /\ row[i].status = CASE chain[e] = "success" -> "confirmed"
                         [] chain[e] = "reverted" -> "reverted"
                         [] OTHER -> "reconciliation_required"
Converges ==
    \A i \in Intents, e \in Requests :
        row[i].execId = e /\ chain[e] # "none" ~> Settled(i, e)

\* The same, once the intent records the transaction hash: a crash may only
\* delay what the cron job finishes.
RecordedConverges ==
    \A i \in Intents, e \in Requests : row[i].tx = e ~> Settled(i, e)

\* The authorization is committed, the row does not say so, and whoever
\* committed it is gone: alreadyCommitted is judged by the row (reconcile.ts:90),
\* so that every sweep that comes to the intent commits again, and throws.
Stranded(i) ==
    /\ HoldOf(i) = "spent"
    /\ row[i].guardStatus # "committed"
    /\ \A q \in Requests : req[q].intent = i => req[q].pc # "mark_confirmed"
    /\ \A s \in Sweeps : sweep[s].pc = "update" => Current(s) # i

\* What the cron job does achieve (INV-004): an intent with a recorded hash
\* gets the status the chain decided, whatever crashed, timed out or raced,
\* unless from some moment on it, or one before it in the sweep's order, is
\* stranded for ever.
ConvergesOrStrands ==
    \A i \in Intents, e \in Requests :
        row[i].tx = e ~> Settled(i, e) \/ [](\E j \in Intents : j <= i /\ Stranded(j))

=============================================================================
