--------------------------- MODULE ApprovalPolicy ---------------------------
(***************************************************************************)
(* Invoices, approvals and the gate in front of a payment: receiving an    *)
(* invoice, evaluating its policy, deciding on it, preparing a payment     *)
(* intent for it and executing that intent, while administrators edit the  *)
(* vendor, its wallets and the workspace.                                  *)
(*                                                                         *)
(* The facts a policy run and a snapshot are made of are read by one query *)
(* each, one after the other, and a gate reads all of them twice.  A       *)
(* snapshot hash is the record it is computed from (SHA-256).  All         *)
(* invoices are of one vendor and organization.  Of rules of one shape one *)
(* is modelled: what is fixed with the invoice (token, chain, confidence)  *)
(* against the workspace is the hard cap and the review threshold, what    *)
(* the vendor contributes (status, risk score) is its status.              *)
(***************************************************************************)
EXTENDS Naturals, FiniteSetsExt, SequencesExt

CONSTANTS
    Invoices,    \* invoices, numbered in order of created_at
    Documents,   \* what invoice_hash and invoice_number tell apart
    Wallets,     \* addresses
    Keys,        \* idempotency keys of payment intents
    Users,       \* members of the organization
    Role,        \* the role in a member's token
    Calls,       \* calls in progress at a time
    Workspaces,  \* settings: [review, cap, multiplier]
    Default,     \* the settings of a new organization
    Amount,      \* amount_base_units of an invoice
    Wallet,      \* wallet_address of an invoice
    None,        \* SQL null
    MaxEvents    \* how many calls and edits come in during one behaviour

ASSUME PolicyAssumption ==
    /\ Invoices \subseteq Nat
    /\ Amount \in [Invoices -> Nat]
    /\ Wallet \in [Invoices -> Wallets]
    /\ Role \in [Users -> {"owner", "finance", "approver", "viewer"}]
    /\ Workspaces \subseteq [review: Nat, cap: Nat, multiplier: Nat]
    /\ Default \in Workspaces
    /\ None \notin Nat \cup Documents \cup Keys \cup Users \cup Invoices
    /\ MaxEvents \in Nat

VARIABLES
    vendor,      \* vendors.status
    wallets,     \* addresses of the vendor's approved wallets
    workspace,   \* organizations
    invoice,     \* invoices: status and document
    approvals,   \* approvals of an invoice in order of created_at
    intent,      \* payment_intents by key
    call,        \* locals of the handlers
    eventsLeft,
    held         \* history: the facts that held while a call passed its gate

vars == <<vendor, wallets, workspace, invoice, approvals, intent, call,
          eventsLeft, held>>
-----------------------------------------------------------------------------
\* Who may evaluate and decide, and who may prepare and execute.
Deciders == {"owner", "finance", "approver"}
Payers == {"owner", "finance"}
HasRequiredRole(u, allowed) == Role[u] \in allowed
\* ensureLocalIdentity, the end of requireActor, records the member and answers
\* nothing that is looked at.
RequireActor(allowed) == {u \in Users : HasRequiredRole(u, allowed)}

VendorStatus == {"pending", "approved", "blocked"}
InvoiceStatus == {"none", "received", "ready", "needs_approval", "blocked", "approved",
                  "rejected", "payment_intent_created", "executed"}
Operations == {"receive", "evaluate", "decide", "create", "execute"}
CallPc == {"idle", "evaluate", "snapshot", "policy", "check_approval", "separate_duties",
           "insert_approval", "insert_intent", "claim", "settle", "set_status"}

FindInvoice(i) == invoice[i].status # "none"

\* findDuplicateInvoice: the oldest other invoice of the vendor that agrees in
\* hash or number, as a set of at most one.
Duplicate(i) ==
    LET same == {j \in Invoices \ {i} : /\ FindInvoice(j)
                                        /\ invoice[j].document = invoice[i].document}
    IN  {j \in same : \A k \in same : j <= k}

\* vendorAverage: over the vendor's other invoices that were or are being paid.
VendorAverage(i) ==
    LET paid == {j \in Invoices \ {i} :
                    invoice[j].status \in {"payment_intent_created", "executed"}}
    IN  IF paid = {} THEN None ELSE SumFunctionOnSet(Amount, paid) \div Cardinality(paid)

\* The order in which runPolicy and loadPolicySnapshotForInvoice read them.
Aspects == <<"vendor", "wallets", "duplicate", "workspace", "average">>

Facts(i) == [vendor |-> vendor, wallets |-> wallets, duplicate |-> Duplicate(i),
             workspace |-> workspace, average |-> VendorAverage(i)]

Unread == [a \in ToSet(Aspects) |-> None]

\* evaluateInvoicePolicy.
BlockingRules == {"vendor.blocked", "amount.hard_cap", "invoice.duplicate",
                  "wallet.changed", "wallet.no_approved_wallet"}
EscalatingRules == {"vendor.pending_onboarding", "amount.requires_review",
                    "amount.vendor_average_spike"}

Blocks(i, f) ==
    {r \in BlockingRules :
        \/ r = "vendor.blocked" /\ f.vendor = "blocked"
        \/ r = "amount.hard_cap" /\ Amount[i] > f.workspace.cap
        \/ r = "invoice.duplicate" /\ f.duplicate # {}
        \/ r = "wallet.changed" /\ f.wallets # {} /\ Wallet[i] \notin f.wallets
        \/ r = "wallet.no_approved_wallet" /\ f.wallets = {}}

Escalations(i, f) ==
    {r \in EscalatingRules :
        \/ r = "vendor.pending_onboarding" /\ f.vendor = "pending"
        \/ r = "amount.requires_review" /\ Amount[i] > f.workspace.review
        \/ /\ r = "amount.vendor_average_spike"
           /\ f.average \notin {None, 0}
           /\ Amount[i] > f.average * f.workspace.multiplier}

ResultWithoutBlocks(i, f) == IF Escalations(i, f) # {} THEN "escalate" ELSE "allow"
Result(i, f) == IF Blocks(i, f) # {} THEN "block"
                ELSE IF Escalations(i, f) # {} THEN "escalate" ELSE "allow"

StatusUnmapped(result) == result
StatusForPolicy(result) ==
    CASE result = "allow" -> "ready"
      [] result = "escalate" -> "needs_approval"
      [] result = "block" -> "blocked"

\* computePolicySnapshotHash: the average enters by the rule it triggers only.
Snapshot(i, f) ==
    [vendor |-> f.vendor, wallets |-> f.wallets, duplicate |-> f.duplicate,
     workspace |-> f.workspace, rules |-> Blocks(i, f) \cup Escalations(i, f)]

\* The approval the gate looks at: the newest row with decision 'approved'.
LatestApproved(i) ==
    SelectLastInSeq(approvals[i], LAMBDA a : a.decision = "approved")

CoversAnything(a, snapshot) == TRUE
Covers(a, snapshot) == a.snapshot = snapshot
-----------------------------------------------------------------------------
FactRecord == [vendor: VendorStatus, wallets: SUBSET Wallets, duplicate: SUBSET Invoices,
               workspace: Workspaces, average: Nat \cup {None}]
PartialFacts == [vendor: VendorStatus \cup {None}, wallets: (SUBSET Wallets) \cup {None},
                 duplicate: (SUBSET Invoices) \cup {None},
                 workspace: Workspaces \cup {None}, average: Nat \cup {None}]
SnapshotRecord == [vendor: VendorStatus, wallets: SUBSET Wallets, duplicate: SUBSET Invoices,
                   workspace: Workspaces, rules: SUBSET (BlockingRules \cup EscalatingRules)]
InvoiceRecord == [status: InvoiceStatus, document: Documents \cup {None}]
Approval == [user: Users, decision: {"approved", "rejected"}, snapshot: SnapshotRecord]
CallState == [pc: CallPc, op: Operations \cup {None}, user: Users \cup {None},
              invoice: Invoices \cup {None}, key: Keys \cup {None},
              read: 0 .. Len(Aspects) - 1, facts: PartialFacts,
              snapshot: SnapshotRecord \cup {None}, status: InvoiceStatus \cup {None}]

TypeOK ==
    /\ vendor \in VendorStatus
    /\ wallets \in SUBSET Wallets
    /\ workspace \in Workspaces
    /\ invoice \in [Invoices -> InvoiceRecord]
    /\ approvals \in [Invoices -> Seq(Approval)]
    /\ intent \in [Keys -> [status: {"none", "prepared", "executing", "confirmed", "unsettled"},
                            invoice: Invoices \cup {None}]]
    /\ call \in [Calls -> CallState]
    /\ eventsLeft \in 0 .. MaxEvents
    /\ held \in [Calls -> SUBSET FactRecord]

NoCall == [pc |-> "idle", op |-> None, user |-> None, invoice |-> None, key |-> None,
           read |-> 0, facts |-> Unread, snapshot |-> None, status |-> None]

Init ==
    /\ vendor = "pending"
    /\ wallets \in SUBSET Wallets
    /\ workspace = Default
    /\ invoice = [i \in Invoices |-> [status |-> "none", document |-> None]]
    /\ approvals = [i \in Invoices |-> <<>>]
    /\ intent = [k \in Keys |-> [status |-> "none", invoice |-> None]]
    /\ call = [c \in Calls |-> NoCall]
    /\ eventsLeft = MaxEvents
    /\ held = [c \in Calls |-> {}]
-----------------------------------------------------------------------------
\* A call is at its gate from the first read of ensurePayable to the last
\* check that can refuse it.
AtGate(c) == /\ call[c].op \in {"create", "execute"}
             /\ call[c].pc \in {"snapshot", "policy", "check_approval", "separate_duties"}

PassedGate(c) == call[c].pc \in {"insert_intent", "claim"}

\* The history: every value the facts have while the call is at its gate.
Watch(c) ==
    CASE AtGate(c)' -> held[c] \cup {Facts(call[c].invoice)'}
      [] PassedGate(c)' -> held[c]
      [] OTHER -> {}

Observe == held' = [c \in Calls |-> Watch(c)]

\* A step that reads, or checks what was read, and writes nothing.
WritesNothing == /\ UNCHANGED <<vendor, wallets, workspace, invoice, approvals, intent,
                                eventsLeft>>
                 /\ Observe

Goto(c, pc) == call' = [call EXCEPT ![c].pc = pc]
Return(c) == call' = [call EXCEPT ![c] = NoCall]

\* The call has nothing left to do but to write the invoice's status.
ThenStatus(c, status) ==
    call' = [call EXCEPT ![c] = [NoCall EXCEPT !.pc = "set_status", !.status = status,
                                               !.invoice = call[c].invoice]]

\* A call comes in; what it reads first (the invoice, the row of its key) does
\* not change once it exists, so that the read is part of the start.
Begin(c, op, u, i, k, pc) ==
    /\ call[c].pc = "idle"
    /\ eventsLeft > 0
    /\ eventsLeft' = eventsLeft - 1
    /\ call' = [call EXCEPT ![c] = [NoCall EXCEPT !.pc = pc, !.op = op, !.user = u,
                                                  !.invoice = i, !.key = k]]

\* createInvoice and the extraction handler: INSERT with status 'received'.
\* Invoices are numbered by age, and nothing keeps documents apart.
ReceiveInvoice(c, i, d) ==
    /\ ~FindInvoice(i)
    /\ \A j \in Invoices : j < i => FindInvoice(j)
    /\ Begin(c, "receive", None, i, None, "evaluate")
    /\ invoice' = [invoice EXCEPT ![i] = [status |-> "received", document |-> d]]
    /\ UNCHANGED <<vendor, wallets, workspace, approvals, intent>>
    /\ Observe

\* evaluatePolicy, whatever the invoice's status is.
EvaluatePolicy(c, i) ==
    /\ RequireActor(Deciders) # {}
    /\ FindInvoice(i)
    /\ Begin(c, "evaluate", None, i, None, "evaluate")
    /\ UNCHANGED <<vendor, wallets, workspace, invoice, approvals, intent>>
    /\ Observe

\* decideApproval, whatever the invoice's status and the policy's result are.
DecideApproval(c, u, i) ==
    /\ u \in RequireActor(Deciders)
    /\ FindInvoice(i)
    /\ Begin(c, "decide", u, i, None, "snapshot")
    /\ UNCHANGED <<vendor, wallets, workspace, invoice, approvals, intent>>
    /\ Observe

\* createPaymentIntent; a key in use is answered without any effect.
CreatePaymentIntent(c, i, k) ==
    /\ RequireActor(Payers) # {}
    /\ FindInvoice(i)
    /\ intent[k].status = "none"
    /\ Begin(c, "create", None, i, k, "snapshot")
    /\ UNCHANGED <<vendor, wallets, workspace, invoice, approvals, intent>>
    /\ Observe

\* executePaymentIntent, up to ensurePayable.
ExecutePaymentIntent(c, u, k) ==
    /\ u \in RequireActor(Payers)
    /\ intent[k].status \in {"prepared", "executing"}
    /\ Begin(c, "execute", u, intent[k].invoice, k, "snapshot")
    /\ UNCHANGED <<vendor, wallets, workspace, invoice, approvals, intent>>
    /\ Observe
-----------------------------------------------------------------------------
\* The fact the call reads next, and what it has then read.
NextRead(c) ==
    LET a == Aspects[call[c].read + 1]
    IN  [call[c].facts EXCEPT ![a] = Facts(call[c].invoice)[a]]

LastRead(c) == call[c].read + 1 = Len(Aspects)

ReadFact(c) ==
    /\ call[c].pc \in {"snapshot", "policy"}
    /\ ~LastRead(c)
    /\ call' = [call EXCEPT ![c].facts = NextRead(c), ![c].read = @ + 1]
    /\ WritesNothing

\* loadPolicySnapshotForInvoice.  The policy run of a decision is only logged.
TakeSnapshot(c) ==
    /\ call[c].pc = "snapshot"
    /\ LastRead(c)
    /\ call' = [call EXCEPT ![c].snapshot = Snapshot(call[c].invoice, NextRead(c)),
                            ![c].pc = IF call[c].op = "decide" THEN "insert_approval"
                                      ELSE "policy",
                            ![c].facts = Unread, ![c].read = 0]
    /\ WritesNothing

\* Where a call goes from ensurePayable.
PastGate(c) == IF call[c].op = "create" THEN "insert_intent" ELSE "separate_duties"

\* runPolicy in ensurePayable.
RunPolicy(c) ==
    LET result == Result(call[c].invoice, NextRead(c))
        read == [call[c] EXCEPT !.facts = Unread, !.read = 0]
    IN  /\ call[c].pc = "policy"
        /\ LastRead(c)
        /\ CASE result = "block" -> Return(c)
             [] result = "escalate" ->
                  call' = [call EXCEPT ![c] = [read EXCEPT !.pc = "check_approval"]]
             [] result = "allow" ->
                  call' = [call EXCEPT ![c] = [read EXCEPT !.pc = PastGate(c),
                                                           !.snapshot = None]]
        /\ WritesNothing

\* runPolicy for its status.  It reads the facts as the gate does; they are
\* taken at one moment here, because nothing reads which of the three statuses
\* it yields.
Evaluate(c) ==
    /\ call[c].pc = "evaluate"
    /\ LET i == call[c].invoice
       IN  ThenStatus(c, StatusForPolicy(Result(i, Facts(i))))
    /\ WritesNothing

CheckApproval(c) ==
    LET i == call[c].invoice
        n == LatestApproved(i)
    IN  /\ call[c].pc = "check_approval"
        /\ IF n # 0 /\ Covers(approvals[i][n], call[c].snapshot)
             THEN call' = [call EXCEPT ![c].pc = PastGate(c), ![c].snapshot = None]
             ELSE Return(c)
        /\ WritesNothing

\* assertExecutorDiffersFromApprover.
SeparatedAlways(i, u) == TRUE
Separated(i, u) ==
    LatestApproved(i) = 0 \/ approvals[i][LatestApproved(i)].user # u

SeparateDuties(c) ==
    /\ call[c].pc = "separate_duties"
    /\ IF Separated(call[c].invoice, call[c].user) THEN Goto(c, "claim") ELSE Return(c)
    /\ WritesNothing
-----------------------------------------------------------------------------
InsertApproval(c, decision) ==
    LET a == [user |-> call[c].user, decision |-> decision, snapshot |-> call[c].snapshot]
    IN  /\ call[c].pc = "insert_approval"
        /\ approvals' = [approvals EXCEPT ![call[c].invoice] = Append(@, a)]
        /\ ThenStatus(c, decision)
        /\ UNCHANGED <<vendor, wallets, workspace, invoice, intent, eventsLeft>>
        /\ Observe

\* The unique index on the key; createPurchase has one on the same key before.
KeyIgnored(k) == TRUE
KeyFree(k) == intent[k].status = "none"

InsertIntent(c) ==
    LET k == call[c].key
    IN  /\ call[c].pc = "insert_intent"
        /\ IF KeyFree(k)
             THEN /\ intent' = [intent EXCEPT ![k] = [status |-> "prepared",
                                                      invoice |-> call[c].invoice]]
                  /\ ThenStatus(c, "payment_intent_created")
             ELSE Return(c) /\ UNCHANGED intent
        /\ UNCHANGED <<vendor, wallets, workspace, invoice, approvals, eventsLeft>>
        /\ Observe

\* UPDATE ... WHERE status = 'prepared'; PaymentExecution has the rest.
Claim(c) ==
    LET k == call[c].key
    IN  /\ call[c].pc = "claim"
        /\ IF intent[k].status = "prepared"
             THEN /\ intent' = [intent EXCEPT ![k].status = "executing"]
                  /\ Goto(c, "settle")
             ELSE Return(c) /\ UNCHANGED intent
        /\ UNCHANGED <<vendor, wallets, workspace, invoice, approvals, eventsLeft>>
        /\ Observe

\* What PaymentExecution says in detail: confirmed, or any other outcome.
Settle(c) ==
    LET k == call[c].key
    IN  /\ call[c].pc = "settle"
        /\ \/ /\ intent' = [intent EXCEPT ![k].status = "confirmed"]
              /\ ThenStatus(c, "executed")
           \/ /\ intent' = [intent EXCEPT ![k].status = "unsettled"]
              /\ Return(c)
        /\ UNCHANGED <<vendor, wallets, workspace, invoice, approvals, eventsLeft>>
        /\ Observe

\* updateInvoiceStatus: no condition on the status it replaces.
SetStatus(c) ==
    /\ call[c].pc = "set_status"
    /\ invoice' = [invoice EXCEPT ![call[c].invoice].status = call[c].status]
    /\ Return(c)
    /\ UNCHANGED <<vendor, wallets, workspace, approvals, intent, eventsLeft>>
    /\ Observe
-----------------------------------------------------------------------------
Edit ==
    /\ eventsLeft > 0
    /\ eventsLeft' = eventsLeft - 1
    /\ UNCHANGED <<invoice, approvals, intent, call>>

\* upsertVendor, as createVendor calls it.
UpsertVendor ==
    /\ Edit
    /\ vendor' \in VendorStatus \ {vendor}
    /\ UNCHANGED <<wallets, workspace>>
    /\ Observe

\* addVendorWallet: a new wallet, or another status of an old one.
AddVendorWallet(w) ==
    /\ Edit
    /\ wallets' = IF w \in wallets THEN wallets \ {w} ELSE wallets \cup {w}
    /\ UNCHANGED <<vendor, workspace>>
    /\ Observe

UpdateWorkspace ==
    /\ Edit
    /\ workspace' \in Workspaces \ {workspace}
    /\ UNCHANGED <<vendor, wallets>>
    /\ Observe
-----------------------------------------------------------------------------
Next ==
    \/ \E c \in Calls, i \in Invoices :
          \/ \E d \in Documents : ReceiveInvoice(c, i, d)
          \/ EvaluatePolicy(c, i)
          \/ \E u \in Users : DecideApproval(c, u, i)
          \/ \E k \in Keys : CreatePaymentIntent(c, i, k)
    \/ \E c \in Calls :
          \/ \E u \in Users, k \in Keys : ExecutePaymentIntent(c, u, k)
          \/ ReadFact(c) \/ TakeSnapshot(c) \/ RunPolicy(c) \/ Evaluate(c)
          \/ CheckApproval(c) \/ SeparateDuties(c)
          \/ \E d \in {"approved", "rejected"} : InsertApproval(c, d)
          \/ InsertIntent(c) \/ Claim(c) \/ Settle(c) \/ SetStatus(c)
    \/ UpsertVendor \/ UpdateWorkspace
    \/ \E w \in Wallets : AddVendorWallet(w)

Spec == Init /\ [][Next]_vars
-----------------------------------------------------------------------------
\* Some decision approved invoice i under exactly the facts f.
ApprovedUnder(i, f) ==
    \E n \in DOMAIN approvals[i] : /\ approvals[i][n].decision = "approved"
                                  /\ approvals[i][n].snapshot = Snapshot(i, f)

Payable(i, f) == \/ Result(i, f) = "allow"
                 \/ Result(i, f) = "escalate" /\ ApprovedUnder(i, f)

\* No blocked payment (threat-model.md:60): however edits fall between the
\* reads of a gate, a call that passes it met a moment without a blocked
\* vendor, one with the invoice's wallet approved, one without a duplicate and
\* one with the amount within the hard cap.
NoBlockedPayment ==
    \A c \in Calls : PassedGate(c) =>
        LET i == call[c].invoice
        IN  /\ \E f \in held[c] : f.vendor # "blocked"
            /\ \E f \in held[c] : Wallet[i] \in f.wallets
            /\ \E f \in held[c] : f.duplicate = {}
            /\ \E f \in held[c] : Amount[i] <= f.workspace.cap

\* ensurePayable is right when nothing changes under it: then the facts allow
\* the payment, or they ask for an approval and one was given under exactly
\* these facts, however late its own statements came.
SteadyGateIsSound ==
    \A c \in Calls : PassedGate(c) =>
        \A f \in held[c] : held[c] = {f} => Payable(call[c].invoice, f)

\* Separation of duties (api.ts:2013): whoever executes a payment that needed
\* an approval is not the only one who approved the invoice.
ExecutorNotAlone ==
    \A c \in Calls : call[c].pc = "claim" =>
        \A f \in held[c] :
            held[c] = {f} /\ Result(call[c].invoice, f) = "escalate" =>
                \E n \in DOMAIN approvals[call[c].invoice] :
                    LET a == approvals[call[c].invoice][n]
                    IN  a.decision = "approved" /\ a.user # call[c].user

\* Calls racing for one key: an intent is for the invoice it was prepared for,
\* and one that was executed is never prepared again (endpoints.md:67).
IntentKept ==
    [][\A k \in Keys : intent[k].status # "none" =>
          /\ intent'[k].invoice = intent[k].invoice
          /\ intent'[k].status = "prepared" => intent[k].status = "prepared"]_vars

\* INV-006, a material change invalidates prior approvals: a gate is passed only
\* if at some moment of the call its facts were payable.
ChangeVoidsApproval ==
    \A c \in Calls : PassedGate(c) =>
        \E f \in held[c] : Payable(call[c].invoice, f)
=============================================================================
